---- MODULE Spec2Model ----
(***************************************************************************)
(* State-machine model of the Arrow buffer substrate:                      *)
(*   rust/src/buffer.rs     Buffer, BufferData, MutableBuffer              *)
(*   rust/src/builder.rs    BufferBuilder<T>, BufferBuilder<bool>,         *)
(*                          PrimitiveArrayBuilder<T>, ListArrayBuilder<T>  *)
(*   rust/src/datatypes.rs  DataType and Field, to and from JSON           *)
(* Memory is modelled as byte sequences (index 1 is byte offset 0).        *)
(***************************************************************************)
EXTENDS Integers, Sequences, FiniteSets, TLC

VARIABLES
    heap,      \* regions handed out by the aligned allocator: <<[bytes, freed]>>
    arcs,      \* Arc<BufferData> cells: <<[ptr, len, strong]>>
    handles,   \* Buffer values: <<[data, offset, live]>>
    mbuf,      \* the MutableBuffer under test: [state, data, len, capacity]
    bb,        \* the fixed-width BufferBuilder<T>: [state, size, buffer, len] and
               \* pushed, the values handed to push and push_slice so far
    boolb,     \* the BufferBuilder<bool>: [state, buffer, len] and pushed
    calls,     \* number of calls made on the MutableBuffer (MaxCalls bounds
               \* them together with the Buffers made from it)
    array,     \* the ArrayData values built by finish: <<[len, null_count,
               \* buffers, null_bitmap, child]>>
    lb,        \* the ListArrayBuilder: [state, offsets_builder, bitmap_builder,
               \* len] and appended, the append calls made so far; its child
               \* builder is the pair (bb, boolb)
    llb,       \* the ListArrayBuilder whose child builder is lb: the same
               \* fields, with appended the append calls made on it so far
    js,        \* the DataType / Field JSON conversion in progress
    thr,       \* the threads sharing Buffers: for each thread the handles it
               \* owns, the Arc whose last count it has just given up, what
               \* its last data() returned and the bytes it built a Buffer from
    last,      \* the last call made and what it returned
    panic      \* "" or the message of the assertion that aborted the program

vars == <<heap, arcs, handles, mbuf, bb, boolb, array, lb, llb, js, thr, calls, last, panic>>

----------------------------------------------------------------------------
(* Bounds of the model *)

MaxHandles == 3
MaxRegions == 2
MaxSliceArg == 3
MaxCapacity == 256
MaxCalls == 4
MaxPushed == 9
MaxSlots == 5
MaxChildSlots == 3
MaxAppends == 2
MaxDepth == 2
MaxThreads == 2
MaxOuterAppends == 2
MaxFields == 3

(* Byte values stored by the callers of the model, and the values a freshly *)
(* allocated (uninitialised) byte may hold.                                 *)
ByteVals == {0, 1}
FreshFill == {0, 255}

----------------------------------------------------------------------------
(* util::bit_util and memory, by their documented contracts.  A fresh byte *)
(* holds whatever the allocator left there: `fill`.                         *)

Max(a, b) == IF a >= b THEN a ELSE b

round_upto_multiple_of_64(n) == ((n + 63) \div 64) * 64

ceil(n, d) == (n + d - 1) \div d

allocate_aligned(size, fill) == [i \in 1..size |-> fill]

reallocate(old_size, new_size, bytes, fill) ==
    [i \in 1..new_size |-> IF i <= old_size THEN bytes[i] ELSE fill]

memcpy(dst, at, src) ==
    [i \in 1..Len(dst) |->
        IF i > at /\ i <= at + Len(src) THEN src[i - at] ELSE dst[i]]

memcmp_eq(a, b, n) == \A i \in 1..n : a[i] = b[i]

----------------------------------------------------------------------------
(* MutableBuffer: {data, len, capacity} *)

MutableBuffer_new_unrounded(capacity, fill) ==
    [data |-> allocate_aligned(capacity, fill), len |-> 0, capacity |-> capacity]

MutableBuffer_new(capacity, fill) ==
    LET new_capacity == round_upto_multiple_of_64(capacity)
    IN  [data |-> allocate_aligned(new_capacity, fill),
         len |-> 0,
         capacity |-> new_capacity]

MutableBuffer_resize_no_doubling(self, new_capacity, fill) ==
    IF new_capacity <= self.capacity
    THEN self
    ELSE LET nc == round_upto_multiple_of_64(new_capacity)
         IN  [self EXCEPT !.data = reallocate(self.capacity, nc, self.data, fill),
                          !.capacity = nc]

MutableBuffer_resize_setting_len(self, new_capacity, fill) ==
    IF new_capacity <= self.capacity
    THEN [self EXCEPT !.len = new_capacity]
    ELSE LET rounded == round_upto_multiple_of_64(new_capacity)
             nc == Max(rounded, self.capacity * 2)
         IN  [self EXCEPT !.data = reallocate(self.capacity, nc, self.data, fill),
                          !.capacity = nc,
                          !.len = new_capacity]

MutableBuffer_resize(self, new_capacity, fill) ==
    IF new_capacity <= self.capacity
    THEN self
    ELSE LET rounded == round_upto_multiple_of_64(new_capacity)
             nc == Max(rounded, self.capacity * 2)
         IN  [self EXCEPT !.data = reallocate(self.capacity, nc, self.data, fill),
                          !.capacity = nc]

MutableBuffer_clear_releasing(self) ==
    [self EXCEPT !.len = 0, !.capacity = 0, !.data = <<>>]

MutableBuffer_clear(self) == [self EXCEPT !.len = 0]

MutableBuffer_data(self) == SubSeq(self.data, 1, self.len)

MutableBuffer_write_off_by_one(self, buf) ==
    LET remaining_capacity == self.capacity - self.len
    IN  IF Len(buf) >= remaining_capacity
        THEN [ok |-> FALSE, buffer |-> self]
        ELSE [ok |-> TRUE,
              buffer |-> [self EXCEPT !.data = memcpy(self.data, self.len, buf),
                                      !.len = self.len + Len(buf)]]

MutableBuffer_write_at_start(self, buf) ==
    LET remaining_capacity == self.capacity - self.len
    IN  IF Len(buf) > remaining_capacity
        THEN [ok |-> FALSE, buffer |-> self]
        ELSE [ok |-> TRUE,
              buffer |-> [self EXCEPT !.data = memcpy(self.data, 0, buf),
                                      !.len = self.len + Len(buf)]]

MutableBuffer_write(self, buf) ==
    LET remaining_capacity == self.capacity - self.len
    IN  IF Len(buf) > remaining_capacity
        THEN [ok |-> FALSE, buffer |-> self]
        ELSE [ok |-> TRUE,
              buffer |-> [self EXCEPT !.data = memcpy(self.data, self.len, buf),
                                      !.len = self.len + Len(buf)]]

(* freeze: the BufferData built from self, and whether self's destructor   *)
(* still runs (mem::forget suppresses it).                                  *)
MutableBuffer_freeze_no_forget(self) ==
    [bytes |-> self.data, len |-> self.len, self_dropped |-> TRUE]

MutableBuffer_freeze(self) ==
    [bytes |-> self.data, len |-> self.len, self_dropped |-> FALSE]

(* MutableBuffer::reserve and set_null_bits, as builder.rs calls them:     *)
(* reserve grows like resize and returns the capacity, set_null_bits zeroes *)
(* count bytes from byte offset start.                                      *)
MutableBuffer_reserve(self, capacity, fill) ==
    IF capacity <= self.capacity
    THEN self
    ELSE LET rounded == round_upto_multiple_of_64(capacity)
             nc == Max(rounded, self.capacity * 2)
         IN  [self EXCEPT !.data = reallocate(self.capacity, nc, self.data, fill),
                          !.capacity = nc]

MutableBuffer_set_null_bits(self, start, count) ==
    [self EXCEPT !.data =
        [i \in 1..Len(self.data) |->
            IF i > start /\ i <= start + count THEN 0 ELSE self.data[i]]]

----------------------------------------------------------------------------
(* BufferBuilder<T> for a fixed-width T of `size` bytes: {buffer, len}.    *)
(* The model carries size (mem::size_of::<T>()) in the builder.             *)

(* ToByteSlice for T: the native (little-endian) bytes of v *)
RECURSIVE to_byte_slice(_, _)
to_byte_slice(v, size) ==
    IF size = 0 THEN <<>>
    ELSE <<v % 256>> \o to_byte_slice(v \div 256, size - 1)

RECURSIVE slice_to_byte_slice(_, _)
slice_to_byte_slice(vs, size) ==
    IF vs = <<>> THEN <<>>
    ELSE to_byte_slice(Head(vs), size) \o slice_to_byte_slice(Tail(vs), size)

BufferBuilder_new(size, capacity, fill) ==
    [size |-> size, buffer |-> MutableBuffer_new(capacity * size, fill), len |-> 0]

BufferBuilder_capacity(self) == self.buffer.capacity \div self.size

BufferBuilder_reserve_ignoring_len(self, n, fill) ==
    LET byte_capacity == self.size * n
    IN  [self EXCEPT !.buffer = MutableBuffer_reserve(self.buffer, byte_capacity, fill)]

BufferBuilder_reserve(self, n, fill) ==
    LET new_capacity == self.len + n
        byte_capacity == self.size * new_capacity
    IN  [self EXCEPT !.buffer = MutableBuffer_reserve(self.buffer, byte_capacity, fill)]

BufferBuilder_write_bytes(self, bytes, len_added) ==
    LET write_result == MutableBuffer_write(self.buffer, bytes)
    IN  IF ~write_result.ok
        THEN [ok |-> FALSE, builder |-> self]
        ELSE [ok |-> TRUE,
              builder |-> [self EXCEPT !.buffer = write_result.buffer,
                                       !.len = self.len + len_added]]

BufferBuilder_push_without_reserve(self, v, fill) ==
    BufferBuilder_write_bytes(self, to_byte_slice(v, self.size), 1)

BufferBuilder_push(self, v, fill) ==
    BufferBuilder_write_bytes(BufferBuilder_reserve(self, 1, fill),
                              to_byte_slice(v, self.size), 1)

BufferBuilder_push_slice(self, slice, fill) ==
    LET array_slots == Len(slice)
    IN  BufferBuilder_write_bytes(BufferBuilder_reserve(self, array_slots, fill),
                                  slice_to_byte_slice(slice, self.size), array_slots)

BufferBuilder_advance_keeping_len(self, i, fill) ==
    LET new_buffer_len == (self.len + i) * self.size
    IN  [self EXCEPT !.buffer = MutableBuffer_resize(self.buffer, new_buffer_len, fill)]

BufferBuilder_advance(self, i, fill) ==
    LET new_buffer_len == (self.len + i) * self.size
    IN  [self EXCEPT !.buffer = MutableBuffer_resize(self.buffer, new_buffer_len, fill),
                     !.len = self.len + i]

BufferBuilder_finish(self) == MutableBuffer_freeze(self.buffer)

----------------------------------------------------------------------------
(* BufferBuilder<bool>: bit-packed, {buffer, len} with len counted in bits *)

get_bit(data, i) == (data[(i \div 8) + 1] \div (2 ^ (i % 8))) % 2 = 1

set_bit_raw(data, i) ==
    IF get_bit(data, i)
    THEN data
    ELSE [data EXCEPT ![(i \div 8) + 1] = @ + 2 ^ (i % 8)]

BoolBuilder_new(capacity, fill) ==
    LET byte_capacity == ceil(capacity, 8)
        actual_capacity == round_upto_multiple_of_64(byte_capacity)
        buffer == MutableBuffer_new(actual_capacity, fill)
    IN  [buffer |-> MutableBuffer_set_null_bits(buffer, 0, actual_capacity),
         len |-> 0]

BoolBuilder_capacity(self) == self.buffer.capacity * 8

BoolBuilder_reserve_without_zeroing(self, n, fill) ==
    LET new_capacity == self.len + n
    IN  IF new_capacity > self.buffer.capacity * 8
        THEN [self EXCEPT !.buffer =
                 MutableBuffer_reserve(self.buffer, ceil(new_capacity, 8), fill)]
        ELSE self

BoolBuilder_reserve(self, n, fill) ==
    LET new_capacity == self.len + n
    IN  IF new_capacity > BoolBuilder_capacity(self)
        THEN LET new_byte_capacity == ceil(new_capacity, 8)
                 existing_capacity == self.buffer.capacity
                 grown == MutableBuffer_reserve(self.buffer, new_byte_capacity, fill)
             IN  [self EXCEPT !.buffer =
                     MutableBuffer_set_null_bits(grown, existing_capacity,
                                                 grown.capacity - existing_capacity)]
        ELSE self

BoolBuilder_push(self, v, fill) ==
    LET r == BoolBuilder_reserve(self, 1, fill)
    IN  [r EXCEPT !.buffer.data = IF v THEN set_bit_raw(@, r.len) ELSE @,
                  !.len = r.len + 1]

RECURSIVE BoolBuilder_push_slice(_, _, _)
BoolBuilder_push_slice(self, slice, fill) ==
    IF slice = <<>> THEN self
    ELSE BoolBuilder_push_slice(BoolBuilder_push(self, Head(slice), fill),
                                Tail(slice), fill)

BoolBuilder_advance(self, i, fill) ==
    LET new_buffer_len == ceil(self.len + i, 8)
    IN  [self EXCEPT !.buffer = MutableBuffer_resize(self.buffer, new_buffer_len, fill),
                     !.len = self.len + i]

BoolBuilder_finish(self) ==
    LET new_buffer_len == ceil(self.len, 8)
    IN  MutableBuffer_freeze(MutableBuffer_resize(self.buffer, new_buffer_len, 0))

----------------------------------------------------------------------------
(* PrimitiveArrayBuilder<T>: {values_builder, bitmap_builder} and the       *)
(* ArrayData it finishes into.                                              *)

(* bit_util::count_set_bits: the number of 1 bits in a byte slice *)
RECURSIVE count_set_bits_byte(_)
count_set_bits_byte(b) ==
    IF b = 0 THEN 0 ELSE (b % 2) + count_set_bits_byte(b \div 2)

RECURSIVE count_set_bits(_)
count_set_bits(data) ==
    IF data = <<>> THEN 0
    ELSE count_set_bits_byte(Head(data)) + count_set_bits(Tail(data))

(* Buffer::data of a Buffer that freeze has just built (offset 0) *)
Frozen_data(d) == SubSeq(d.bytes, 1, d.len)

PrimitiveArrayBuilder_new(size, capacity, fv, fb) ==
    [values_builder |-> BufferBuilder_new(size, capacity, fv),
     bitmap_builder |-> BoolBuilder_new(capacity, fb)]

PrimitiveArrayBuilder_len(self) == self.values_builder.len

PrimitiveArrayBuilder_push(self, v, fv, fb) ==
    LET bitmap == BoolBuilder_push(self.bitmap_builder, TRUE, fb)
        r == BufferBuilder_push(self.values_builder, v, fv)
    IN  [ok |-> r.ok,
         builder |-> [values_builder |-> r.builder, bitmap_builder |-> bitmap]]

PrimitiveArrayBuilder_push_null_bitmap_only(self, fv, fb) ==
    [ok |-> TRUE,
     builder |-> [self EXCEPT !.bitmap_builder = BoolBuilder_push(@, FALSE, fb)]]

PrimitiveArrayBuilder_push_null(self, fv, fb) ==
    [ok |-> TRUE,
     builder |-> [values_builder |-> BufferBuilder_advance(self.values_builder, 1, fv),
                  bitmap_builder |-> BoolBuilder_push(self.bitmap_builder, FALSE, fb)]]

(* an Option<T> is [some |-> BOOLEAN, v |-> T] *)
PrimitiveArrayBuilder_push_option(self, d, fv, fb) ==
    IF d.some
    THEN PrimitiveArrayBuilder_push(self, d.v, fv, fb)
    ELSE PrimitiveArrayBuilder_push_null(self, fv, fb)

PrimitiveArrayBuilder_push_slice_one_bit(self, v, fv, fb) ==
    LET bitmap == BoolBuilder_push(self.bitmap_builder, TRUE, fb)
        r == BufferBuilder_push_slice(self.values_builder, v, fv)
    IN  [ok |-> r.ok,
         builder |-> [values_builder |-> r.builder, bitmap_builder |-> bitmap]]

PrimitiveArrayBuilder_push_slice(self, v, fv, fb) ==
    LET bitmap == BoolBuilder_push_slice(self.bitmap_builder,
                                         [i \in 1..Len(v) |-> TRUE], fb)
        r == BufferBuilder_push_slice(self.values_builder, v, fv)
    IN  [ok |-> r.ok,
         builder |-> [values_builder |-> r.builder, bitmap_builder |-> bitmap]]

(* The same calls when the allocator may refuse to grow a region: reserve   *)
(* and resize return the Err of memory::reallocate before they change       *)
(* anything, and each ? hands it to the caller.  granted says whether the   *)
(* allocator satisfies the call's reallocation, if it makes one.            *)
BoolBuilder_push_or_err(self, v, fill, granted) ==
    IF self.len + 1 > BoolBuilder_capacity(self) /\ ~granted
    THEN [ok |-> FALSE, builder |-> self]
    ELSE [ok |-> TRUE, builder |-> BoolBuilder_push(self, v, fill)]

BufferBuilder_push_or_err(self, v, fill, granted) ==
    IF self.size * (self.len + 1) > self.buffer.capacity /\ ~granted
    THEN [ok |-> FALSE, builder |-> self]
    ELSE BufferBuilder_push(self, v, fill)

BufferBuilder_advance_or_err(self, i, fill, granted) ==
    IF (self.len + i) * self.size > self.buffer.capacity /\ ~granted
    THEN [ok |-> FALSE, builder |-> self]
    ELSE [ok |-> TRUE, builder |-> BufferBuilder_advance(self, i, fill)]

PrimitiveArrayBuilder_push_or_err(self, v, fv, fb, gv, gb) ==
    LET bitmap == BoolBuilder_push_or_err(self.bitmap_builder, TRUE, fb, gb)
    IN  IF ~bitmap.ok
        THEN [ok |-> FALSE, builder |-> self]
        ELSE LET r == BufferBuilder_push_or_err(self.values_builder, v, fv, gv)
             IN  [ok |-> r.ok,
                  builder |-> [values_builder |-> r.builder,
                               bitmap_builder |-> bitmap.builder]]

PrimitiveArrayBuilder_push_null_or_err(self, fv, fb, gv, gb) ==
    LET bitmap == BoolBuilder_push_or_err(self.bitmap_builder, FALSE, fb, gb)
    IN  IF ~bitmap.ok
        THEN [ok |-> FALSE, builder |-> self]
        ELSE LET r == BufferBuilder_advance_or_err(self.values_builder, 1, fv, gv)
             IN  [ok |-> r.ok,
                  builder |-> [values_builder |-> r.builder,
                               bitmap_builder |-> bitmap.builder]]

(* finish: the ArrayData fields, with the two Buffers as freeze built them *)
PrimitiveArrayBuilder_finish(self) ==
    LET len == PrimitiveArrayBuilder_len(self)
        null_bit_buffer == BoolBuilder_finish(self.bitmap_builder)
        null_count == len - count_set_bits(Frozen_data(null_bit_buffer))
    IN  [len |-> len, null_count |-> null_count,
         values |-> BufferBuilder_finish(self.values_builder),
         null_bit_buffer |-> null_bit_buffer]

----------------------------------------------------------------------------
(* ListArrayBuilder<T>: {offsets_builder, bitmap_builder, values_builder,   *)
(* len}, with a PrimitiveArrayBuilder as values_builder.                    *)

(* the i32 whose native (little-endian) bytes are b *)
i32_from_bytes(b) ==
    b[1] + 256 * b[2] + 65536 * b[3]
         + 16777216 * (IF b[4] >= 128 THEN b[4] - 256 ELSE b[4])

(* the offsets a BufferBuilder<i32> holds *)
BuilderOffsets(ob) ==
    [i \in 1..ob.len |->
        i32_from_bytes(SubSeq(ob.buffer.data, 4 * (i - 1) + 1, 4 * i))]

ListArrayBuilder_new_without_first_offset(values_builder, fo, fb) ==
    [ok |-> TRUE,
     builder |-> [offsets_builder |->
                      BufferBuilder_new(4, PrimitiveArrayBuilder_len(values_builder) + 1, fo),
                  bitmap_builder |->
                      BoolBuilder_new(PrimitiveArrayBuilder_len(values_builder), fb),
                  values_builder |-> values_builder,
                  len |-> 0]]

(* new: ok is FALSE when push(0).unwrap() panics *)
ListArrayBuilder_new(values_builder, fo, fb) ==
    LET offsets_builder ==
            BufferBuilder_new(4, PrimitiveArrayBuilder_len(values_builder) + 1, fo)
        pushed == BufferBuilder_push(offsets_builder, 0, fo)
    IN  [ok |-> pushed.ok,
         builder |-> [offsets_builder |-> pushed.builder,
                      bitmap_builder |->
                          BoolBuilder_new(PrimitiveArrayBuilder_len(values_builder), fb),
                      values_builder |-> values_builder,
                      len |-> 0]]

ListArrayBuilder_len(self) == self.len

ListArrayBuilder_append_pushing_slot_count(self, is_valid, fo, fb) ==
    LET pushed == BufferBuilder_push(self.offsets_builder, self.len + 1, fo)
    IN  [ok |-> TRUE,
         builder |-> [self EXCEPT
                         !.offsets_builder = pushed.builder,
                         !.bitmap_builder = BoolBuilder_push(@, is_valid, fb),
                         !.len = self.len + 1]]

ListArrayBuilder_append_pushing_slot_length(self, is_valid, fo, fb) ==
    LET offsets == BuilderOffsets(self.offsets_builder)
        pushed == BufferBuilder_push(self.offsets_builder,
                      PrimitiveArrayBuilder_len(self.values_builder)
                          - offsets[Len(offsets)], fo)
    IN  [ok |-> TRUE,
         builder |-> [self EXCEPT
                         !.offsets_builder = pushed.builder,
                         !.bitmap_builder = BoolBuilder_push(@, is_valid, fb),
                         !.len = self.len + 1]]

ListArrayBuilder_append_pushing_byte_length(self, is_valid, fo, fb) ==
    LET pushed == BufferBuilder_push(self.offsets_builder,
                      PrimitiveArrayBuilder_len(self.values_builder)
                          * self.values_builder.values_builder.size, fo)
    IN  [ok |-> TRUE,
         builder |-> [self EXCEPT
                         !.offsets_builder = pushed.builder,
                         !.bitmap_builder = BoolBuilder_push(@, is_valid, fb),
                         !.len = self.len + 1]]

(* append: the first ? returns early, before the bitmap and len change *)
ListArrayBuilder_append(self, is_valid, fo, fb) ==
    LET pushed == BufferBuilder_push(self.offsets_builder,
                      PrimitiveArrayBuilder_len(self.values_builder), fo)
    IN  IF ~pushed.ok
        THEN [ok |-> FALSE, builder |-> self]
        ELSE [ok |-> TRUE,
              builder |-> [self EXCEPT
                              !.offsets_builder = pushed.builder,
                              !.bitmap_builder = BoolBuilder_push(@, is_valid, fb),
                              !.len = self.len + 1]]

(* finish: the child's ArrayData fields and the list's, with the Buffers   *)
(* as freeze built them                                                     *)
ListArrayBuilder_finish(self) ==
    LET len == ListArrayBuilder_len(self)
        values_data == PrimitiveArrayBuilder_finish(self.values_builder)
        null_bit_buffer == BoolBuilder_finish(self.bitmap_builder)
    IN  [len |-> len,
         null_count |-> len - count_set_bits(Frozen_data(null_bit_buffer)),
         offsets |-> BufferBuilder_finish(self.offsets_builder),
         values_data |-> values_data,
         null_bit_buffer |-> null_bit_buffer]


(* impl_list_array_builder!(ListArrayBuilder<PrimitiveArrayBuilder<T>>):    *)
(* the same methods, with a ListArrayBuilder as values_builder              *)
ListListArrayBuilder_new(values_builder, fo, fb) ==
    LET offsets_builder ==
            BufferBuilder_new(4, ListArrayBuilder_len(values_builder) + 1, fo)
        pushed == BufferBuilder_push(offsets_builder, 0, fo)
    IN  [ok |-> pushed.ok,
         builder |-> [offsets_builder |-> pushed.builder,
                      bitmap_builder |->
                          BoolBuilder_new(ListArrayBuilder_len(values_builder), fb),
                      values_builder |-> values_builder,
                      len |-> 0]]

ListListArrayBuilder_append(self, is_valid, fo, fb) ==
    LET pushed == BufferBuilder_push(self.offsets_builder,
                      ListArrayBuilder_len(self.values_builder), fo)
    IN  IF ~pushed.ok
        THEN [ok |-> FALSE, builder |-> self]
        ELSE [ok |-> TRUE,
              builder |-> [self EXCEPT
                              !.offsets_builder = pushed.builder,
                              !.bitmap_builder = BoolBuilder_push(@, is_valid, fb),
                              !.len = self.len + 1]]

ListListArrayBuilder_finish(self) ==
    LET len == ListArrayBuilder_len(self)
        values_data == ListArrayBuilder_finish(self.values_builder)
        null_bit_buffer == BoolBuilder_finish(self.bitmap_builder)
    IN  [len |-> len,
         null_count |-> len - count_set_bits(Frozen_data(null_bit_buffer)),
         offsets |-> BufferBuilder_finish(self.offsets_builder),
         values_data |-> values_data,
         null_bit_buffer |-> null_bit_buffer]
----------------------------------------------------------------------------
(* Buffer: {data: Arc<BufferData>, offset};  BufferData: {ptr, len} *)

Buffer_len(b) == arcs[b.data].len - b.offset

Buffer_raw_data(b) == b.offset

Buffer_data(b) ==
    SubSeq(heap[arcs[b.data].ptr].bytes, b.offset + 1, b.offset + Buffer_len(b))

BufferData_eq(x, y) ==
    IF x.len /= y.len
    THEN FALSE
    ELSE memcmp_eq(heap[x.ptr].bytes, heap[y.ptr].bytes, x.len)

Buffer_eq(a, b) == BufferData_eq(arcs[a.data], arcs[b.data]) /\ a.offset = b.offset

Buffer_slice_guard_region_len(b, offset) == offset <= arcs[b.data].len

Buffer_slice_guard(b, offset) == b.offset + offset <= Buffer_len(b)

Arc_clone_no_count(a) == a

Arc_clone(a) == [a EXCEPT !.strong = a.strong + 1]

Arc_drop_always_last(a) ==
    [arc |-> [a EXCEPT !.strong = a.strong - 1], last |-> TRUE]

(* Drop for Arc: the atomic decrement, and whether it gave up the last     *)
(* count, in which case the caller goes on to drop the BufferData           *)
Arc_drop(a) ==
    [arc |-> [a EXCEPT !.strong = a.strong - 1], last |-> a.strong = 1]

LiveHandles == {h \in 1..Len(handles) : handles[h].live}

NoCall == [op |-> "none", h |-> 0, k |-> 0, ok |-> TRUE, new |-> 0]

(* written: the bytes of the successful writes since new or the last clear *)
NoMutable == [state |-> "none", data |-> <<>>, len |-> 0, capacity |-> 0,
              written |-> <<>>]

NoBuilder == [state |-> "none", size |-> 0, len |-> 0, pushed |-> <<>>,
              buffer |-> [data |-> <<>>, len |-> 0, capacity |-> 0]]

NoBoolBuilder == [state |-> "none", len |-> 0, pushed |-> <<>>,
                  buffer |-> [data |-> <<>>, len |-> 0, capacity |-> 0]]

NoListBuilder == [state |-> "none", len |-> 0, appended |-> <<>>,
                  offsets_builder |-> [size |-> 0, len |-> 0,
                      buffer |-> [data |-> <<>>, len |-> 0, capacity |-> 0]],
                  bitmap_builder |-> [len |-> 0,
                      buffer |-> [data |-> <<>>, len |-> 0, capacity |-> 0]]]

NoJson == [stage |-> "none"]

Threads == 1..MaxThreads

NoThreads ==
    [t \in Threads |->
        [owned |-> {}, dropping |-> 0, made |-> <<>>,
         read |-> [done |-> FALSE, bytes |-> <<>>, freed |-> 0]]]

(* A new Arc<BufferData> over a new region, and the first Buffer on it     *)
(* (Buffer::from_raw_parts, MutableBuffer::freeze).                         *)
NewBuffer(bytes, len, freed, call) ==
    /\ heap' = Append(heap, [bytes |-> bytes, freed |-> freed])
    /\ arcs' = Append(arcs, [ptr |-> Len(heap) + 1, len |-> len, strong |-> 1])
    /\ handles' = Append(handles,
                         [data |-> Len(arcs) + 1, offset |-> 0, live |-> TRUE])
    /\ last' = [call EXCEPT !.new = Len(handles) + 1]

(* impl From<T: AsRef<[u8]>> for Buffer *)
From(p) ==
    /\ panic = ""
    /\ Len(heap) < MaxRegions
    /\ Len(handles) < MaxHandles
    /\ \E fill \in FreshFill :
          LET len == Len(p)
              buffer == allocate_aligned(len, fill)
          IN  NewBuffer(memcpy(buffer, 0, p), len, 0,
                        [NoCall EXCEPT !.op = "from", !.k = len])
    /\ UNCHANGED <<llb, thr, array, lb, js, mbuf, bb, boolb, calls, panic>>

(* impl Clone for Buffer *)
Clone(h) ==
    /\ panic = ""
    /\ h \in LiveHandles
    /\ Len(handles) < MaxHandles
    /\ calls + Len(handles) <= MaxCalls
    /\ arcs' = [arcs EXCEPT ![handles[h].data] = Arc_clone(@)]
    /\ handles' = Append(handles, [data |-> handles[h].data,
                                   offset |-> handles[h].offset,
                                   live |-> TRUE])
    /\ last' = [NoCall EXCEPT !.op = "clone", !.h = h, !.new = Len(handles) + 1]
    /\ UNCHANGED <<llb, thr, array, lb, js, heap, mbuf, bb, boolb, calls, panic>>

(* Buffer::slice: the assertion aborts the program when it fails *)
Slice(h, offset) ==
    /\ panic = ""
    /\ h \in LiveHandles
    /\ Len(handles) < MaxHandles
    /\ calls + Len(handles) <= MaxCalls
    /\ IF Buffer_slice_guard(handles[h], offset)
       THEN /\ arcs' = [arcs EXCEPT ![handles[h].data] = Arc_clone(@)]
            /\ handles' = Append(handles,
                                 [data |-> handles[h].data,
                                  offset |-> handles[h].offset + offset,
                                  live |-> TRUE])
            /\ last' = [NoCall EXCEPT !.op = "slice", !.h = h, !.k = offset,
                                      !.new = Len(handles) + 1]
            /\ UNCHANGED panic
       ELSE /\ panic' = "the offset of the new Buffer cannot exceed the existing length"
            /\ last' = [NoCall EXCEPT !.op = "slice", !.h = h, !.k = offset,
                                      !.ok = FALSE]
            /\ UNCHANGED <<llb, thr, array, lb, js, arcs, handles>>
    /\ UNCHANGED <<llb, thr, array, lb, js, heap, mbuf, bb, boolb, calls>>

(* A Buffer goes out of scope: the Arc's count drops, and the last drop    *)
(* runs Drop for BufferData, which frees the region.                        *)
DropBuffer(h) ==
    /\ panic = ""
    /\ h \in LiveHandles
    /\ LET a == handles[h].data
           strong == arcs[a].strong - 1
       IN  /\ arcs' = [arcs EXCEPT ![a].strong = strong]
           /\ heap' = IF strong = 0
                      THEN [heap EXCEPT ![arcs[a].ptr].freed = @ + 1]
                      ELSE heap
    /\ handles' = [handles EXCEPT ![h].live = FALSE]
    /\ last' = [NoCall EXCEPT !.op = "drop", !.h = h]
    /\ UNCHANGED <<llb, thr, array, lb, js, mbuf, bb, boolb, calls, panic>>

----------------------------------------------------------------------------
(* Calls on the fixed-width BufferBuilder<T> *)

BNew(size, capacity) ==
    /\ panic = ""
    /\ bb.state = "none"
    /\ \E fill \in FreshFill :
          bb' = [state |-> "live", pushed |-> <<>>]
                @@ BufferBuilder_new(size, capacity, fill)
    /\ last' = [NoCall EXCEPT !.op = "new", !.k = capacity]
    /\ UNCHANGED <<llb, thr, array, lb, js, heap, arcs, handles, mbuf, boolb, calls, panic>>

BPush(v) ==
    /\ panic = ""
    /\ bb.state = "live"
    /\ Len(bb.pushed) < MaxPushed
    /\ \E fill \in FreshFill :
          LET r == BufferBuilder_push(bb, v, fill)
          IN  /\ bb' = [r.builder EXCEPT !.pushed = Append(@, v)]
              /\ last' = [NoCall EXCEPT !.op = "push", !.k = 1, !.ok = r.ok]
    /\ UNCHANGED <<llb, thr, array, lb, js, heap, arcs, handles, mbuf, boolb, calls, panic>>

BPushSlice(slice) ==
    /\ panic = ""
    /\ bb.state = "live"
    /\ Len(bb.pushed) + Len(slice) <= MaxPushed
    /\ \E fill \in FreshFill :
          LET r == BufferBuilder_push_slice(bb, slice, fill)
          IN  /\ bb' = [r.builder EXCEPT !.pushed = @ \o slice]
              /\ last' = [NoCall EXCEPT !.op = "push_slice", !.k = Len(slice),
                                        !.ok = r.ok]
    /\ UNCHANGED <<llb, thr, array, lb, js, heap, arcs, handles, mbuf, boolb, calls, panic>>

BFinish ==
    /\ panic = ""
    /\ bb.state = "live"
    /\ LET d == BufferBuilder_finish(bb)
       IN  NewBuffer(d.bytes, d.len, IF d.self_dropped THEN 1 ELSE 0,
                     [NoCall EXCEPT !.op = "finish"])
    /\ bb' = [bb EXCEPT !.state = "finished"]
    /\ UNCHANGED <<llb, thr, array, lb, js, mbuf, boolb, calls, panic>>

(* advance and push as the calls of a builder that skips slots: bb.pushed  *)
(* then holds one entry per slot, 0 for a skipped one                       *)
AdvanceArgs == {1, 2}

BAdvance(i) ==
    /\ panic = ""
    /\ bb.state = "live"
    /\ Len(bb.pushed) + i <= MaxSlots
    /\ \E fill \in FreshFill :
          bb' = [BufferBuilder_advance(bb, i, fill) EXCEPT
                    !.pushed = @ \o [j \in 1..i |-> 0]]
    /\ last' = [NoCall EXCEPT !.op = "advance", !.k = i]
    /\ UNCHANGED <<llb, thr, array, lb, js, heap, arcs, handles, mbuf, boolb, calls, panic>>

BPushSlot(v) ==
    /\ Len(bb.pushed) < MaxSlots
    /\ BPush(v)

----------------------------------------------------------------------------
(* Calls on the BufferBuilder<bool> *)

BoolNew(capacity) ==
    /\ panic = ""
    /\ boolb.state = "none"
    /\ \E fill \in FreshFill :
          boolb' = [state |-> "live", pushed |-> <<>>]
                   @@ BoolBuilder_new(capacity, fill)
    /\ last' = [NoCall EXCEPT !.op = "new", !.k = capacity]
    /\ UNCHANGED <<llb, thr, array, lb, js, heap, arcs, handles, mbuf, bb, calls, panic>>

BoolPush(v) ==
    /\ panic = ""
    /\ boolb.state = "live"
    /\ Len(boolb.pushed) < MaxPushed
    /\ \E fill \in FreshFill :
          boolb' = [BoolBuilder_push(boolb, v, fill) EXCEPT !.pushed = Append(@, v)]
    /\ last' = [NoCall EXCEPT !.op = "push", !.k = 1]
    /\ UNCHANGED <<llb, thr, array, lb, js, heap, arcs, handles, mbuf, bb, calls, panic>>

BoolPushSlice(slice) ==
    /\ panic = ""
    /\ boolb.state = "live"
    /\ Len(boolb.pushed) + Len(slice) <= MaxPushed
    /\ \E fill \in FreshFill :
          boolb' = [BoolBuilder_push_slice(boolb, slice, fill)
                        EXCEPT !.pushed = @ \o slice]
    /\ last' = [NoCall EXCEPT !.op = "push_slice", !.k = Len(slice)]
    /\ UNCHANGED <<llb, thr, array, lb, js, heap, arcs, handles, mbuf, bb, calls, panic>>

BoolFinish ==
    /\ panic = ""
    /\ boolb.state = "live"
    /\ LET d == BoolBuilder_finish(boolb)
       IN  NewBuffer(d.bytes, d.len, IF d.self_dropped THEN 1 ELSE 0,
                     [NoCall EXCEPT !.op = "finish"])
    /\ boolb' = [boolb EXCEPT !.state = "finished"]
    /\ UNCHANGED <<llb, thr, array, lb, js, mbuf, bb, calls, panic>>

(* bit counts given to reserve: enough to grow a 64-byte and a 128-byte   *)
(* bitmap                                                                   *)
BoolReserveArgs == {513, 1025}

BoolAdvanceArgs == {1, 3}

(* advance: boolb.pushed gets one FALSE per skipped bit *)
BoolAdvance(i) ==
    /\ panic = ""
    /\ boolb.state = "live"
    /\ Len(boolb.pushed) + i <= MaxPushed
    /\ \E fill \in FreshFill :
          boolb' = [BoolBuilder_advance(boolb, i, fill) EXCEPT
                       !.pushed = @ \o [j \in 1..i |-> FALSE]]
    /\ last' = [NoCall EXCEPT !.op = "advance", !.k = i]
    /\ UNCHANGED <<llb, thr, array, lb, js, heap, arcs, handles, mbuf, bb, calls, panic>>

BoolReserve(n) ==
    /\ panic = ""
    /\ boolb.state = "live"
    /\ \E fill \in FreshFill :
          LET r == BoolBuilder_reserve(boolb, n, fill)
          IN  /\ r.buffer.capacity <= MaxCapacity
              /\ boolb' = r
    /\ last' = [NoCall EXCEPT !.op = "reserve", !.k = n]
    /\ UNCHANGED <<llb, thr, array, lb, js, heap, arcs, handles, mbuf, bb, calls, panic>>

----------------------------------------------------------------------------
(* Inputs *)

FromInputs == {<<>>, <<1>>, <<0, 1>>, <<1, 1>>, <<0, 1, 1>>}

Fill(v, n) == [i \in 1..n |-> v]

NewArgs == {0, 1, 64, 65}

ResizeArgs == {10, 64, 65, 129, 200}

(* mem::size_of::<T>() of u8, i32 and i64 *)
TypeSizes == {1, 4, 8}

BuilderCapacities == {0, 2, 5}

ValueVals == {1, 258}

SliceInputs == {<<>>, <<1, 258>>, <<258, 1, 1>>}

BoolCapacities == {0, 4}

BoolSliceInputs == {<<>>, <<FALSE, TRUE>>, <<TRUE, TRUE, FALSE>>}

WriteInputs == {Fill(v, n) : v \in ByteVals, n \in {1, 64}}

----------------------------------------------------------------------------
(* Calls on the MutableBuffer *)

MNew(capacity) ==
    /\ panic = ""
    /\ mbuf.state = "none"
    /\ \E fill \in FreshFill :
          mbuf' = [state |-> "live", written |-> <<>>]
                  @@ MutableBuffer_new(capacity, fill)
    /\ calls' = calls + 1
    /\ last' = [NoCall EXCEPT !.op = "new", !.k = capacity]
    /\ UNCHANGED <<llb, thr, array, lb, js, heap, arcs, handles, bb, boolb, panic>>

MResize(new_capacity) ==
    /\ panic = ""
    /\ mbuf.state = "live"
    /\ calls < MaxCalls
    /\ \E fill \in FreshFill :
          LET m == MutableBuffer_resize(mbuf, new_capacity, fill)
          IN  /\ m.capacity <= MaxCapacity
              /\ mbuf' = m
    /\ calls' = calls + 1
    /\ last' = [NoCall EXCEPT !.op = "resize", !.k = new_capacity]
    /\ UNCHANGED <<llb, thr, array, lb, js, heap, arcs, handles, bb, boolb, panic>>

MReserve(capacity) ==
    /\ panic = ""
    /\ mbuf.state = "live"
    /\ calls < MaxCalls
    /\ \E fill \in FreshFill :
          LET m == MutableBuffer_reserve(mbuf, capacity, fill)
          IN  /\ m.capacity <= MaxCapacity
              /\ mbuf' = m
    /\ calls' = calls + 1
    /\ last' = [NoCall EXCEPT !.op = "reserve", !.k = capacity]
    /\ UNCHANGED <<llb, thr, array, lb, js, heap, arcs, handles, bb, boolb, panic>>

MWrite(buf) ==
    /\ panic = ""
    /\ mbuf.state = "live"
    /\ calls < MaxCalls
    /\ LET w == MutableBuffer_write(mbuf, buf)
       IN  /\ mbuf' = [w.buffer EXCEPT
                           !.written = IF w.ok THEN @ \o buf ELSE @]
           /\ last' = [NoCall EXCEPT !.op = "write", !.k = Len(buf), !.ok = w.ok]
    /\ calls' = calls + 1
    /\ UNCHANGED <<llb, thr, array, lb, js, heap, arcs, handles, bb, boolb, panic>>

MClear ==
    /\ panic = ""
    /\ mbuf.state = "live"
    /\ calls < MaxCalls
    /\ mbuf' = [MutableBuffer_clear(mbuf) EXCEPT !.written = <<>>]
    /\ calls' = calls + 1
    /\ last' = [NoCall EXCEPT !.op = "clear"]
    /\ UNCHANGED <<llb, thr, array, lb, js, heap, arcs, handles, bb, boolb, panic>>

(* freeze consumes the MutableBuffer; mbuf keeps the value moved out *)
MFreeze ==
    /\ panic = ""
    /\ mbuf.state = "live"
    /\ LET d == MutableBuffer_freeze(mbuf)
       IN  NewBuffer(d.bytes, d.len, IF d.self_dropped THEN 1 ELSE 0,
                     [NoCall EXCEPT !.op = "freeze"])
    /\ mbuf' = [mbuf EXCEPT !.state = "frozen"]
    /\ UNCHANGED <<llb, thr, array, lb, js, bb, boolb, calls, panic>>

(* impl Drop for MutableBuffer: a MutableBuffer that was never frozen *)
MDrop ==
    /\ panic = ""
    /\ mbuf.state = "live"
    /\ heap' = Append(heap, [bytes |-> mbuf.data, freed |-> 1])
    /\ mbuf' = [mbuf EXCEPT !.state = "dropped"]
    /\ last' = [NoCall EXCEPT !.op = "drop_mutable"]
    /\ UNCHANGED <<llb, thr, array, lb, js, arcs, handles, bb, boolb, calls, panic>>

----------------------------------------------------------------------------
(* Calls on the PrimitiveArrayBuilder<T>, whose two fields are the          *)
(* variables bb (values_builder) and boolb (bitmap_builder).  bb.pushed     *)
(* records one value per slot (0 for a null slot) and boolb.pushed the      *)
(* validity of each slot.                                                   *)

PrimSelf == [values_builder |-> bb, bitmap_builder |-> boolb]

Some(v) == [some |-> TRUE, v |-> v]

None == [some |-> FALSE, v |-> 0]

OptionInputs == {None} \cup {Some(v) : v \in ValueVals}

PrimSliceInputs == {<<>>, <<258, 1>>}

PrimCapacities == {0, 2}

ChildVals == {258}

(* The Buffers of a finished array: one region, Arc and handle per Buffer, *)
(* in the order the code builds them.                                       *)
NewBuffers(ds) ==
    /\ heap' = heap \o [i \in 1..Len(ds) |->
                           [bytes |-> ds[i].bytes,
                            freed |-> IF ds[i].self_dropped THEN 1 ELSE 0]]
    /\ arcs' = arcs \o [i \in 1..Len(ds) |->
                           [ptr |-> Len(heap) + i, len |-> ds[i].len, strong |-> 1]]
    /\ handles' = handles \o [i \in 1..Len(ds) |->
                           [data |-> Len(arcs) + i, offset |-> 0, live |-> TRUE]]

PNew(size, capacity) ==
    /\ panic = ""
    /\ bb.state = "none"
    /\ boolb.state = "none"
    /\ \E fv \in FreshFill, fb \in FreshFill :
          LET b == PrimitiveArrayBuilder_new(size, capacity, fv, fb)
          IN  /\ bb' = [state |-> "live", pushed |-> <<>>] @@ b.values_builder
              /\ boolb' = [state |-> "live", pushed |-> <<>>] @@ b.bitmap_builder
    /\ last' = [NoCall EXCEPT !.op = "new", !.k = capacity]
    /\ UNCHANGED <<llb, thr, array, lb, js, heap, arcs, handles, mbuf, calls, panic>>

(* what a call on the builder leaves behind: r is the call's result, vs   *)
(* the values of the slots it was asked to add and valid their validity    *)
PrimCall(op, r, vs, valid) ==
    /\ bb' = [r.builder.values_builder EXCEPT !.pushed = @ \o vs]
    /\ boolb' = [r.builder.bitmap_builder EXCEPT
                    !.pushed = @ \o [i \in 1..Len(vs) |-> valid]]
    /\ last' = [NoCall EXCEPT !.op = op, !.k = Len(vs), !.ok = r.ok]
    /\ UNCHANGED <<llb, thr, array, lb, js, heap, arcs, handles, mbuf, calls, panic>>

PrimLive(n) ==
    /\ panic = ""
    /\ bb.state = "live"
    /\ boolb.state = "live"
    /\ array = <<>>
    /\ Len(bb.pushed) + n <= MaxSlots

PPush(v) ==
    /\ PrimLive(1)
    /\ \E fv \in FreshFill, fb \in FreshFill :
          PrimCall("push", PrimitiveArrayBuilder_push(PrimSelf, v, fv, fb),
                   <<v>>, TRUE)

PPushNull ==
    /\ PrimLive(1)
    /\ \E fv \in FreshFill, fb \in FreshFill :
          PrimCall("push_null", PrimitiveArrayBuilder_push_null(PrimSelf, fv, fb),
                   <<0>>, FALSE)

PPushOption(d) ==
    /\ PrimLive(1)
    /\ \E fv \in FreshFill, fb \in FreshFill :
          PrimCall("push_option",
                   PrimitiveArrayBuilder_push_option(PrimSelf, d, fv, fb),
                   <<d.v>>, d.some)

PPushSlice(v) ==
    /\ PrimLive(Len(v))
    /\ \E fv \in FreshFill, fb \in FreshFill :
          PrimCall("push_slice",
                   PrimitiveArrayBuilder_push_slice(PrimSelf, v, fv, fb),
                   v, TRUE)

(* push and push_null with an allocator that may refuse: pushed records    *)
(* the slots of the calls that returned Ok                                  *)
PrimCallOrErr(op, r, v, valid) ==
    /\ bb' = [r.builder.values_builder EXCEPT
                 !.pushed = IF r.ok THEN Append(@, v) ELSE @]
    /\ boolb' = [r.builder.bitmap_builder EXCEPT
                    !.pushed = IF r.ok THEN Append(@, valid) ELSE @]
    /\ last' = [NoCall EXCEPT !.op = op, !.k = 1, !.ok = r.ok]
    /\ UNCHANGED <<llb, thr, array, lb, js, heap, arcs, handles, mbuf, calls, panic>>

PPushOrErr(v) ==
    /\ PrimLive(1)
    /\ bb.len < MaxSlots
    /\ boolb.len < MaxSlots
    /\ \E fv \in FreshFill, fb \in FreshFill, gv \in BOOLEAN, gb \in BOOLEAN :
          PrimCallOrErr("push",
              PrimitiveArrayBuilder_push_or_err(PrimSelf, v, fv, fb, gv, gb), v, TRUE)

PPushNullOrErr ==
    /\ PrimLive(1)
    /\ bb.len < MaxSlots
    /\ boolb.len < MaxSlots
    /\ \E fv \in FreshFill, fb \in FreshFill, gv \in BOOLEAN, gb \in BOOLEAN :
          PrimCallOrErr("push_null",
              PrimitiveArrayBuilder_push_null_or_err(PrimSelf, fv, fb, gv, gb), 0, FALSE)

(* finish: Buffer 1 is the validity bitmap and Buffer 2 the values *)
PFinish ==
    /\ PrimLive(0)
    /\ LET d == PrimitiveArrayBuilder_finish(PrimSelf)
       IN  /\ NewBuffers(<<d.null_bit_buffer, d.values>>)
           /\ array' = <<[len |-> d.len, null_count |-> d.null_count,
                          null_bitmap |-> Len(handles) + 1,
                          buffers |-> <<Len(handles) + 2>>,
                          child |-> 0]>>
    /\ bb' = [bb EXCEPT !.state = "finished"]
    /\ boolb' = [boolb EXCEPT !.state = "finished"]
    /\ last' = [NoCall EXCEPT !.op = "finish"]
    /\ UNCHANGED <<llb, thr, lb, js, mbuf, calls, panic>>

(* ArrayData::is_null(i) and is_valid(i): get_bit on the bytes of the      *)
(* null bitmap Buffer; ok is FALSE when bit i lies outside those bytes      *)
ArrayData_is_null(a, i) ==
    LET null_bitmap == Buffer_data(handles[a.null_bitmap])
    IN  IF i \div 8 < Len(null_bitmap)
        THEN [ok |-> TRUE, v |-> ~get_bit(null_bitmap, i)]
        ELSE [ok |-> FALSE, v |-> FALSE]

ArrayData_is_valid(a, i) ==
    LET is_null == ArrayData_is_null(a, i)
    IN  [is_null EXCEPT !.v = is_null.ok /\ ~is_null.v]

(* PrimitiveArray::value(i), as its bytes: the size_of::<T>() bytes at     *)
(* raw_values + i of the array's values Buffer                              *)
PrimitiveArray_value(a, i) ==
    LET b == handles[a.buffers[1]]
        region == heap[arcs[b.data].ptr].bytes
    IN  SubSeq(region, Buffer_raw_data(b) + i * bb.size + 1,
                       Buffer_raw_data(b) + (i + 1) * bb.size)

----------------------------------------------------------------------------
(* Calls on the ListArrayBuilder<PrimitiveArrayBuilder<i32>>.  The child    *)
(* builder is the pair (bb, boolb); lb.appended records, for each append    *)
(* call, its argument and the child's length when it was made.              *)

ListSelf ==
    [offsets_builder |-> lb.offsets_builder, bitmap_builder |-> lb.bitmap_builder,
     values_builder |-> PrimSelf, len |-> lb.len]

(* pushes on the child builder, before it is given to the list builder or  *)
(* through values()                                                         *)
ValuesPush(v) ==
    /\ lb.state \in {"none", "live"}
    /\ Len(bb.pushed) < MaxChildSlots
    /\ PPush(v)

ValuesPushNull ==
    /\ lb.state \in {"none", "live"}
    /\ Len(bb.pushed) < MaxChildSlots
    /\ PPushNull

LNew ==
    /\ panic = ""
    /\ bb.state = "live"
    /\ lb.state = "none"
    /\ \E fo \in FreshFill, fb \in FreshFill :
          LET r == ListArrayBuilder_new(PrimSelf, fo, fb)
          IN  /\ lb' = [state |-> "live", appended |-> <<>>,
                        offsets_builder |-> r.builder.offsets_builder,
                        bitmap_builder |-> r.builder.bitmap_builder,
                        len |-> r.builder.len]
              /\ panic' = IF r.ok THEN "" ELSE "called Result::unwrap() on an Err value"
    /\ last' = [NoCall EXCEPT !.op = "list_new", !.k = bb.len]
    /\ UNCHANGED <<llb, thr, array, js, heap, arcs, handles, mbuf, bb, boolb, calls>>

LAppend(is_valid) ==
    /\ panic = ""
    /\ lb.state = "live"
    /\ lb.len < MaxAppends
    /\ \E fo \in FreshFill, fb \in FreshFill :
          LET r == ListArrayBuilder_append(ListSelf, is_valid, fo, fb)
          IN  /\ lb' = [lb EXCEPT
                           !.offsets_builder = r.builder.offsets_builder,
                           !.bitmap_builder = r.builder.bitmap_builder,
                           !.len = r.builder.len,
                           !.appended = Append(@, [is_valid |-> is_valid,
                                                   child_len |-> bb.len])]
              /\ last' = [NoCall EXCEPT !.op = "append", !.k = bb.len, !.ok = r.ok]
    /\ UNCHANGED <<llb, thr, array, js, heap, arcs, handles, mbuf, bb, boolb, calls, panic>>

(* finish: Buffers 1 and 2 are the child's bitmap and values, Buffer 3 the *)
(* list's bitmap and Buffer 4 its offsets                                   *)
LFinish ==
    /\ panic = ""
    /\ lb.state = "live"
    /\ LET d == ListArrayBuilder_finish(ListSelf)
           n == Len(handles)
       IN  /\ NewBuffers(<<d.values_data.null_bit_buffer, d.values_data.values,
                           d.null_bit_buffer, d.offsets>>)
           /\ array' = <<[len |-> d.values_data.len,
                          null_count |-> d.values_data.null_count,
                          null_bitmap |-> n + 1, buffers |-> <<n + 2>>,
                          child |-> 0],
                         [len |-> d.len, null_count |-> d.null_count,
                          null_bitmap |-> n + 3, buffers |-> <<n + 4>>,
                          child |-> 1]>>
    /\ lb' = [lb EXCEPT !.state = "finished"]
    /\ bb' = [bb EXCEPT !.state = "finished"]
    /\ boolb' = [boolb EXCEPT !.state = "finished"]
    /\ last' = [NoCall EXCEPT !.op = "list_finish"]
    /\ UNCHANGED <<llb, thr, js, mbuf, calls, panic>>

(* ListArray::value_offset(i): the i-th i32 of the array's offsets Buffer  *)
ListArray_value_offset(a, i) ==
    LET b == handles[a.buffers[1]]
        region == heap[arcs[b.data].ptr].bytes
    IN  i32_from_bytes(SubSeq(region, Buffer_raw_data(b) + 4 * i + 1,
                                      Buffer_raw_data(b) + 4 * (i + 1)))

(* ListArray::value_length(i) *)
ListArray_value_length(a, i) ==
    ListArray_value_offset(a, i + 1) - ListArray_value_offset(a, i)

----------------------------------------------------------------------------
(* Calls on the ListArrayBuilder<ListArrayBuilder<PrimitiveArrayBuilder<i32>>>. *)
(* Its child builder is lb; llb.appended records, for each append call on   *)
(* it, its argument and the number of append calls made on lb before it.    *)

ListListSelf ==
    [offsets_builder |-> llb.offsets_builder, bitmap_builder |-> llb.bitmap_builder,
     values_builder |-> ListSelf, len |-> llb.len]

LLNew ==
    /\ panic = ""
    /\ lb.state = "live"
    /\ llb.state = "none"
    /\ \E fo \in FreshFill, fb \in FreshFill :
          LET r == ListListArrayBuilder_new(ListSelf, fo, fb)
          IN  /\ llb' = [state |-> "live", appended |-> <<>>,
                         offsets_builder |-> r.builder.offsets_builder,
                         bitmap_builder |-> r.builder.bitmap_builder,
                         len |-> r.builder.len]
              /\ panic' = IF r.ok THEN "" ELSE "called Result::unwrap() on an Err value"
    /\ last' = [NoCall EXCEPT !.op = "list_list_new", !.k = lb.len]
    /\ UNCHANGED <<thr, array, lb, js, heap, arcs, handles, mbuf, bb, boolb, calls>>

LLAppend(is_valid) ==
    /\ panic = ""
    /\ llb.state = "live"
    /\ llb.len < MaxOuterAppends
    /\ \E fo \in FreshFill, fb \in FreshFill :
          LET r == ListListArrayBuilder_append(ListListSelf, is_valid, fo, fb)
          IN  /\ llb' = [llb EXCEPT
                            !.offsets_builder = r.builder.offsets_builder,
                            !.bitmap_builder = r.builder.bitmap_builder,
                            !.len = r.builder.len,
                            !.appended = Append(@, [is_valid |-> is_valid,
                                                    child_len |-> Len(lb.appended)])]
              /\ last' = [NoCall EXCEPT !.op = "list_list_append", !.k = lb.len,
                                        !.ok = r.ok]
    /\ UNCHANGED <<thr, array, lb, js, heap, arcs, handles, mbuf, bb, boolb, calls, panic>>

(* finish: Buffers 1 and 2 are the leaf's bitmap and values, 3 and 4 the    *)
(* inner list's bitmap and offsets, 5 and 6 the outer list's                *)
LLFinish ==
    /\ panic = ""
    /\ llb.state = "live"
    /\ LET d == ListListArrayBuilder_finish(ListListSelf)
           inner == d.values_data
           leaf == inner.values_data
           n == Len(handles)
       IN  /\ NewBuffers(<<leaf.null_bit_buffer, leaf.values,
                           inner.null_bit_buffer, inner.offsets,
                           d.null_bit_buffer, d.offsets>>)
           /\ array' = <<[len |-> leaf.len, null_count |-> leaf.null_count,
                          null_bitmap |-> n + 1, buffers |-> <<n + 2>>,
                          child |-> 0],
                         [len |-> inner.len, null_count |-> inner.null_count,
                          null_bitmap |-> n + 3, buffers |-> <<n + 4>>,
                          child |-> 1],
                         [len |-> d.len, null_count |-> d.null_count,
                          null_bitmap |-> n + 5, buffers |-> <<n + 6>>,
                          child |-> 2]>>
    /\ llb' = [llb EXCEPT !.state = "finished"]
    /\ lb' = [lb EXCEPT !.state = "finished"]
    /\ bb' = [bb EXCEPT !.state = "finished"]
    /\ boolb' = [boolb EXCEPT !.state = "finished"]
    /\ last' = [NoCall EXCEPT !.op = "list_list_finish"]
    /\ UNCHANGED <<thr, js, mbuf, calls, panic>>

----------------------------------------------------------------------------
(* DataType and Field, and their JSON forms.  A DataType is [tag] for the   *)
(* primitive variants, [tag, child] for List and [tag, fields] for Struct;  *)
(* a Field is [name, data_type, nullable].  A serde_json Value is a record  *)
(* tagged by kind, and an Object's map is a function from its keys.         *)

Primitive(tag) == [tag |-> tag]

List(t) == [tag |-> "List", child |-> t]

Struct(fields) == [tag |-> "Struct", fields |-> fields]

Field_new(name, data_type, nullable) ==
    [name |-> name, data_type |-> data_type, nullable |-> nullable]

JNull == [kind |-> "Null"]

JBool(b) == [kind |-> "Bool", b |-> b]

JNumber(n) == [kind |-> "Number", n |-> n]

JString(s) == [kind |-> "String", s |-> s]

JArray(items) == [kind |-> "Array", items |-> items]

JObject(map) == [kind |-> "Object", map |-> map]

(* Map::get *)
get(map, key) == IF key \in DOMAIN map THEN Some(map[key]) ELSE None

(* Value == &str *)
eq_str(value, str) == value.kind = "String" /\ value.s = str

(* Number::as_u64 *)
as_u64(number) == IF number.n >= 0 THEN Some(number.n) ELSE None

Ok(value) == [ok |-> TRUE, value |-> value]

ParseError(message) == [ok |-> FALSE, error |-> message]

int_json(bitWidth, isSigned) ==
    JObject([name |-> JString("int"), bitWidth |-> JNumber(bitWidth),
             isSigned |-> JBool(isSigned)])

floatingpoint_json(precision) ==
    JObject([name |-> JString("floatingpoint"), precision |-> JString(precision)])

RECURSIVE DataType_to_json(_)
RECURSIVE Field_to_json(_)
DataType_to_json(self) ==
    CASE self.tag = "Boolean" -> JObject([name |-> JString("bool")])
      [] self.tag = "Int8" -> int_json(8, TRUE)
      [] self.tag = "Int16" -> int_json(16, TRUE)
      [] self.tag = "Int32" -> int_json(32, TRUE)
      [] self.tag = "Int64" -> int_json(64, TRUE)
      [] self.tag = "UInt8" -> int_json(8, FALSE)
      [] self.tag = "UInt16" -> int_json(16, FALSE)
      [] self.tag = "UInt32" -> int_json(32, FALSE)
      [] self.tag = "UInt64" -> int_json(64, FALSE)
      [] self.tag = "Float16" -> floatingpoint_json("HALF")
      [] self.tag = "Float32" -> floatingpoint_json("SINGLE")
      [] self.tag = "Float64" -> floatingpoint_json("DOUBLE")
      [] self.tag = "Utf8" -> JObject([name |-> JString("utf8")])
      [] self.tag = "Struct" ->
            JObject([fields |-> JArray([i \in 1..Len(self.fields) |->
                                           Field_to_json(self.fields[i])])])
      [] self.tag = "List" ->
            JObject([name |-> JString("list"),
                     children |-> DataType_to_json(self.child)])

Field_to_json(self) ==
    JObject([name |-> JString(self.name),
             nullable |-> JBool(self.nullable),
             type |-> DataType_to_json(self.data_type)])

signed_int_from(n) ==
    CASE n = Some(8) -> Ok(Primitive("Int8"))
      [] n = Some(16) -> Ok(Primitive("Int16"))
      [] n = Some(32) -> Ok(Primitive("Int32"))
      [] n = Some(64) -> Ok(Primitive("Int32"))
      [] OTHER -> ParseError("int bitWidth missing or invalid")

unsigned_int_from(n) ==
    CASE n = Some(8) -> Ok(Primitive("UInt8"))
      [] n = Some(16) -> Ok(Primitive("UInt16"))
      [] n = Some(32) -> Ok(Primitive("UInt32"))
      [] n = Some(64) -> Ok(Primitive("UInt64"))
      [] OTHER -> ParseError("int bitWidth missing or invalid")

floatingpoint_from_defaulting_to_double(map) ==
    LET p == get(map, "precision")
    IN  CASE p.some /\ eq_str(p.v, "HALF") -> Ok(Primitive("Float16"))
          [] p.some /\ eq_str(p.v, "SINGLE") -> Ok(Primitive("Float32"))
          [] OTHER -> Ok(Primitive("Float64"))

(* the arms of DataType::from for "floatingpoint" and "int" *)
floatingpoint_from(map) ==
    LET p == get(map, "precision")
    IN  CASE p.some /\ eq_str(p.v, "HALF") -> Ok(Primitive("Float16"))
          [] p.some /\ eq_str(p.v, "SINGLE") -> Ok(Primitive("Float32"))
          [] p.some /\ eq_str(p.v, "DOUBLE") -> Ok(Primitive("Float64"))
          [] OTHER -> ParseError("floatingpoint precision missing or invalid")

int_from(map) ==
    LET isSigned == get(map, "isSigned")
        bitWidth == get(map, "bitWidth")
    IN  IF isSigned.some /\ isSigned.v.kind = "Bool"
        THEN IF bitWidth.some /\ bitWidth.v.kind = "Number"
             THEN IF isSigned.v.b
                  THEN signed_int_from(as_u64(bitWidth.v))
                  ELSE unsigned_int_from(as_u64(bitWidth.v))
             ELSE ParseError("int bitWidth missing or invalid")
        ELSE ParseError("int signed missing or invalid")

RECURSIVE DataType_from(_)
RECURSIVE Field_from(_)
DataType_from(json) ==
    IF json.kind /= "Object"
    THEN ParseError("invalid json value type")
    ELSE LET map == json.map
             s == get(map, "name")
         IN  CASE s.some /\ eq_str(s.v, "bool") -> Ok(Primitive("Boolean"))
               [] s.some /\ eq_str(s.v, "utf8") -> Ok(Primitive("Utf8"))
               [] s.some /\ eq_str(s.v, "floatingpoint") -> floatingpoint_from(map)
               [] s.some /\ eq_str(s.v, "int") -> int_from(map)
               [] s.some /\ ~(\E name \in {"bool", "utf8", "floatingpoint", "int"} :
                                 eq_str(s.v, name)) ->
                     ParseError("invalid type name")
               [] ~s.some ->
                     LET fields_array == get(map, "fields")
                     IN  IF fields_array.some /\ fields_array.v.kind = "Array"
                         THEN LET fields == [i \in 1..Len(fields_array.v.items) |->
                                                Field_from(fields_array.v.items[i])]
                                  failed == {i \in 1..Len(fields) : ~fields[i].ok}
                              IN  IF failed = {}
                                  THEN Ok(Struct([i \in 1..Len(fields) |->
                                                     fields[i].value]))
                                  ELSE fields[CHOOSE i \in failed :
                                                 \A j \in failed : i <= j]
                         ELSE ParseError("empty type")

Field_from_defaulting_nullable(json) ==
    IF json.kind /= "Object"
    THEN ParseError("Invalid json value type for field")
    ELSE LET map == json.map
             name == get(map, "name")
             nullable == get(map, "nullable")
             type == get(map, "type")
         IN  IF ~(name.some /\ name.v.kind = "String")
             THEN ParseError("Field missing 'name' attribute")
             ELSE IF ~type.some
             THEN ParseError("Field missing 'type' attribute")
             ELSE LET data_type == DataType_from(type.v)
                  IN  IF ~data_type.ok
                      THEN data_type
                      ELSE Ok([name |-> name.v.s,
                               nullable |-> nullable.some /\ nullable.v.kind = "Bool"
                                                /\ nullable.v.b,
                               data_type |-> data_type.value])

Field_from(json) ==
    IF json.kind /= "Object"
    THEN ParseError("Invalid json value type for field")
    ELSE LET map == json.map
             name == get(map, "name")
             nullable == get(map, "nullable")
             type == get(map, "type")
         IN  IF ~(name.some /\ name.v.kind = "String")
             THEN ParseError("Field missing 'name' attribute")
             ELSE IF ~(nullable.some /\ nullable.v.kind = "Bool")
             THEN ParseError("Field missing 'nullable' attribute")
             ELSE IF ~type.some
             THEN ParseError("Field missing 'type' attribute")
             ELSE LET data_type == DataType_from(type.v)
                  IN  IF ~data_type.ok
                      THEN data_type
                      ELSE Ok([name |-> name.v.s, nullable |-> nullable.v.b,
                               data_type |-> data_type.value])

(* Schema {fields}: new, field(i) and column_with_name, whose find walks    *)
(* the enumerated fields from index 0 and stops at the first match          *)
Schema_new(fields) == [fields |-> fields]

Schema_field(self, i) == self.fields[i + 1]

RECURSIVE find_last(_, _, _)
find_last(fields, name, i) ==
    IF i = 0 THEN None
    ELSE IF fields[i].name = name THEN Some(<<i - 1, fields[i]>>)
    ELSE find_last(fields, name, i - 1)

Schema_column_with_name_last(self, name) == find_last(self.fields, name, Len(self.fields))

RECURSIVE find(_, _, _)
find(fields, name, i) ==
    IF i >= Len(fields) THEN None
    ELSE IF fields[i + 1].name = name THEN Some(<<i, fields[i + 1]>>)
    ELSE find(fields, name, i + 1)

Schema_column_with_name(self, name) == find(self.fields, name, 0)

(* The conversions as calls: a value is rendered by to_json, or a JSON     *)
(* value is given, and from parses what js holds.                           *)

PrimitiveTypes ==
    {Primitive(tag) : tag \in {"Boolean", "Int8", "Int16", "Int32", "Int64",
                               "UInt8", "UInt16", "UInt32", "UInt64",
                               "Float16", "Float32", "Float64", "Utf8"}}

(* the DataTypes nested at most depth deep *)
RECURSIVE TypesUpTo(_)
TypesUpTo(depth) ==
    IF depth = 0 THEN PrimitiveTypes
    ELSE LET inner == TypesUpTo(depth - 1)
         IN  inner
             \cup {List(t) : t \in inner}
             \cup {Struct(<<>>)}
             \cup {Struct(<<Field_new("a", t, nullable)>>) :
                      t \in inner, nullable \in BOOLEAN}
             \cup {Struct(<<Field_new("a", t, TRUE),
                            Field_new("b", Primitive("Utf8"), FALSE)>>) : t \in inner}

DataTypes == TypesUpTo(MaxDepth)

Fields ==
    {Field_new(name, t, nullable) :
        name \in {"a", "b"}, t \in DataTypes, nullable \in BOOLEAN}

IntWidths == {8, 16, 32, 64}

(* JSON given to DataType::from directly *)
TypeJsonInputs ==
    {int_json(w, isSigned) : w \in IntWidths \cup {0, 7}, isSigned \in BOOLEAN}
    \cup {JObject([name |-> JString("int"), bitWidth |-> JNumber(64)]),
          JObject([name |-> JString("list"),
                   children |-> JObject([name |-> JString("bool")])]),
          JObject([name |-> JString("bool"), extra |-> JNull]),
          JObject([name |-> JString("decimal")]),
          JObject(<<>>),
          JString("bool"),
          JObject([name |-> JNumber(1)]),
          JObject([name |-> JString("int"), bitWidth |-> JNumber(8),
                   isSigned |-> JString("true")]),
          JObject([name |-> JString("int"), isSigned |-> JBool(FALSE)]),
          JObject([name |-> JString("int"), bitWidth |-> JString("8"),
                   isSigned |-> JBool(TRUE)]),
          JObject([name |-> JString("int"), bitWidth |-> JNumber(-8),
                   isSigned |-> JBool(TRUE)]),
          JObject([name |-> JString("floatingpoint")]),
          floatingpoint_json("QUAD"),
          JObject([name |-> JString("floatingpoint"), precision |-> JNumber(32)]),
          JObject([fields |-> JString("a")]),
          JObject([children |-> JObject([name |-> JString("bool")])]),
          JObject([fields |-> JArray(<<JString("a")>>)]),
          JObject([fields |-> JArray(<<Field_to_json(Field_new("a", Primitive("Utf8"), TRUE)),
                                       JObject([name |-> JString("b"),
                                                nullable |-> JBool(TRUE)])>>)]),
          JObject([fields |-> JArray(<<Field_to_json(Field_new("a", Primitive("Utf8"), TRUE))>>),
                   extra |-> JBool(TRUE)])}

(* JSON given to Field::from directly *)
FieldJsonInputs ==
    {JObject([name |-> JString("a"), nullable |-> JBool(FALSE),
              type |-> JObject([name |-> JString("bool")]), extra |-> JNull]),
     JObject([nullable |-> JBool(FALSE), type |-> JObject([name |-> JString("bool")])]),
     JObject([name |-> JNumber(1), nullable |-> JBool(FALSE),
              type |-> JObject([name |-> JString("bool")])]),
     JObject([name |-> JString("a"), type |-> JObject([name |-> JString("bool")])]),
     JObject([name |-> JString("a"), nullable |-> JString("no"),
              type |-> JObject([name |-> JString("bool")])]),
     JObject([name |-> JString("a"), nullable |-> JBool(TRUE)]),
     JObject([name |-> JString("a"), nullable |-> JBool(TRUE),
              type |-> JObject([name |-> JString("decimal")])]),
     JObject([name |-> JString("a"), nullable |-> JBool(TRUE), type |-> JString("bool")]),
     JObject([name |-> JString("a"), nullable |-> JBool(TRUE),
              type |-> int_json(16, FALSE)]),
     JArray(<<>>),
     JString("a")}

(* Calls on a Schema: js holds the schema built, the Vec it was built from  *)
(* and the last lookup made with its result                                 *)
SchemaFields ==
    {Field_new(name, t, FALSE) :
        name \in {"a", "b"}, t \in {Primitive("Utf8"), Primitive("UInt16")}}

SchemaInputs == UNION {[1..n -> SchemaFields] : n \in 0..MaxFields}

ColumnNames == {"a", "b", "c"}

Schema_new_call(fields) ==
    /\ js.stage = "none"
    /\ js' = [stage |-> "schema", given |-> fields, self |-> Schema_new(fields),
              name |-> "", result |-> None]
    /\ last' = [NoCall EXCEPT !.op = "Schema::new", !.k = Len(fields)]
    /\ UNCHANGED <<llb, thr, array, lb, heap, arcs, handles, mbuf, bb, boolb, calls, panic>>

Schema_column_with_name_call(name) ==
    /\ js.stage = "schema"
    /\ js' = [js EXCEPT !.name = name,
                        !.result = Schema_column_with_name(js.self, name)]
    /\ last' = [NoCall EXCEPT !.op = "column_with_name"]
    /\ UNCHANGED <<llb, thr, array, lb, heap, arcs, handles, mbuf, bb, boolb, calls, panic>>

DataType_to_json_call(x) ==
    /\ js.stage = "none"
    /\ js' = [stage |-> "rendered", of |-> "DataType", origin |-> "to_json",
              x |-> x, json |-> DataType_to_json(x)]
    /\ last' = [NoCall EXCEPT !.op = "DataType::to_json"]
    /\ UNCHANGED <<llb, thr, array, lb, heap, arcs, handles, mbuf, bb, boolb, calls, panic>>

Field_to_json_call(f) ==
    /\ js.stage = "none"
    /\ js' = [stage |-> "rendered", of |-> "Field", origin |-> "to_json",
              x |-> f, json |-> Field_to_json(f)]
    /\ last' = [NoCall EXCEPT !.op = "Field::to_json"]
    /\ UNCHANGED <<llb, thr, array, lb, heap, arcs, handles, mbuf, bb, boolb, calls, panic>>

GivenTypeJson(json) ==
    /\ js.stage = "none"
    /\ js' = [stage |-> "rendered", of |-> "DataType", origin |-> "given",
              x |-> JNull, json |-> json]
    /\ last' = [NoCall EXCEPT !.op = "given"]
    /\ UNCHANGED <<llb, thr, array, lb, heap, arcs, handles, mbuf, bb, boolb, calls, panic>>

GivenFieldJson(json) ==
    /\ js.stage = "none"
    /\ js' = [stage |-> "rendered", of |-> "Field", origin |-> "given",
              x |-> JNull, json |-> json]
    /\ last' = [NoCall EXCEPT !.op = "given"]
    /\ UNCHANGED <<llb, thr, array, lb, heap, arcs, handles, mbuf, bb, boolb, calls, panic>>

DataType_from_call ==
    /\ js.stage = "rendered"
    /\ js.of = "DataType"
    /\ js' = [stage |-> "parsed", result |-> DataType_from(js.json)] @@ js
    /\ last' = [NoCall EXCEPT !.op = "DataType::from"]
    /\ UNCHANGED <<llb, thr, array, lb, heap, arcs, handles, mbuf, bb, boolb, calls, panic>>

Field_from_call ==
    /\ js.stage = "rendered"
    /\ js.of = "Field"
    /\ js' = [stage |-> "parsed", result |-> Field_from(js.json)] @@ js
    /\ last' = [NoCall EXCEPT !.op = "Field::from"]
    /\ UNCHANGED <<llb, thr, array, lb, heap, arcs, handles, mbuf, bb, boolb, calls, panic>>

----------------------------------------------------------------------------
(* Buffers shared between threads (unsafe impl Sync / Send for Buffer).     *)
(* Each step is one atomic access: the count's increment in clone, the      *)
(* count's decrement in drop, and the free that follows the last decrement. *)

(* the main thread builds the Buffer *)
TFrom(p) ==
    /\ panic = ""
    /\ handles = <<>>
    /\ heap = <<>>
    /\ \E fill \in FreshFill :
          LET len == Len(p)
              buffer == allocate_aligned(len, fill)
          IN  NewBuffer(memcpy(buffer, 0, p), len, 0,
                        [NoCall EXCEPT !.op = "from", !.k = len])
    /\ thr' = [thr EXCEPT ![1].owned = {1}, ![1].made = p]
    /\ UNCHANGED <<llb, array, lb, js, mbuf, bb, boolb, calls, panic>>

(* thread t clones its handle h; the clone stays with t or moves to u, as  *)
(* into the closure of thread::spawn                                        *)
TClone(t, h, u) ==
    /\ panic = ""
    /\ h \in thr[t].owned
    /\ thr[t].dropping = 0
    /\ Len(handles) < MaxHandles
    /\ arcs' = [arcs EXCEPT ![handles[h].data] = Arc_clone(@)]
    /\ handles' = Append(handles, handles[h])
    /\ thr' = [thr EXCEPT ![u].owned = @ \cup {Len(handles) + 1}]
    /\ last' = [NoCall EXCEPT !.op = "clone", !.h = h, !.new = Len(handles) + 1]
    /\ UNCHANGED <<llb, array, lb, js, heap, mbuf, bb, boolb, calls, panic>>

(* thread t reads its handle h through data() *)
TRead(t, h) ==
    /\ panic = ""
    /\ h \in thr[t].owned
    /\ thr[t].dropping = 0
    /\ thr' = [thr EXCEPT ![t].read =
                  [done |-> TRUE, bytes |-> Buffer_data(handles[h]),
                   freed |-> heap[arcs[handles[h].data].ptr].freed]]
    /\ last' = [NoCall EXCEPT !.op = "data", !.h = h]
    /\ UNCHANGED <<llb, array, lb, js, heap, arcs, handles, mbuf, bb, boolb, calls, panic>>

(* thread t drops its handle h: the decrement of the count *)
TDrop(t, h) ==
    /\ panic = ""
    /\ h \in thr[t].owned
    /\ thr[t].dropping = 0
    /\ LET a == handles[h].data
           d == Arc_drop(arcs[a])
       IN  /\ arcs' = [arcs EXCEPT ![a] = d.arc]
           /\ thr' = [thr EXCEPT ![t].owned = @ \ {h},
                                 ![t].dropping = IF d.last THEN a ELSE 0]
    /\ handles' = [handles EXCEPT ![h].live = FALSE]
    /\ last' = [NoCall EXCEPT !.op = "drop", !.h = h]
    /\ UNCHANGED <<llb, array, lb, js, heap, mbuf, bb, boolb, calls, panic>>

(* the thread that gave up the last count runs Drop for BufferData *)
TFree(t) ==
    /\ panic = ""
    /\ thr[t].dropping /= 0
    /\ heap' = [heap EXCEPT ![arcs[thr[t].dropping].ptr].freed = @ + 1]
    /\ thr' = [thr EXCEPT ![t].dropping = 0]
    /\ last' = [NoCall EXCEPT !.op = "free"]
    /\ UNCHANGED <<llb, array, lb, js, arcs, handles, mbuf, bb, boolb, calls, panic>>

----------------------------------------------------------------------------
(* Specification of the immutable Buffer: from, clone, slice, drop *)

Init ==
    /\ heap = <<>>
    /\ arcs = <<>>
    /\ handles = <<>>
    /\ mbuf = NoMutable
    /\ bb = NoBuilder
    /\ boolb = NoBoolBuilder
    /\ array = <<>>
    /\ lb = NoListBuilder
    /\ llb = NoListBuilder
    /\ js = NoJson
    /\ thr = NoThreads
    /\ calls = 0
    /\ last = NoCall
    /\ panic = ""

Next ==
    \/ \E p \in FromInputs : From(p)
    \/ \E h \in 1..MaxHandles : Clone(h)
    \/ \E h \in 1..MaxHandles, k \in 0..MaxSliceArg : Slice(h, k)
    \/ \E h \in 1..MaxHandles : DropBuffer(h)

Spec == Init /\ [][Next]_vars

----------------------------------------------------------------------------
(* Specification of the MutableBuffer: new, resize, reserve, write, clear, *)
(* then drop, or freeze and the life of the frozen Buffer                   *)

NextMutable ==
    \/ \E c \in NewArgs : MNew(c)
    \/ \E n \in ResizeArgs : MResize(n)
    \/ \E n \in ResizeArgs : MReserve(n)
    \/ \E buf \in WriteInputs : MWrite(buf)
    \/ MClear
    \/ MFreeze
    \/ MDrop
    \/ \E h \in 1..MaxHandles : Clone(h)
    \/ \E h \in 1..MaxHandles, k \in 0..MaxSliceArg : Slice(h, k)
    \/ \E h \in 1..MaxHandles : DropBuffer(h)

SpecMutable == Init /\ [][NextMutable]_vars

----------------------------------------------------------------------------
(* Specification of the fixed-width BufferBuilder<T>: new, push,           *)
(* push_slice, finish                                                       *)

NextBuilder ==
    \/ \E size \in TypeSizes, c \in BuilderCapacities : BNew(size, c)
    \/ \E v \in ValueVals : BPush(v)
    \/ \E slice \in SliceInputs : BPushSlice(slice)
    \/ BFinish

SpecBuilder == Init /\ [][NextBuilder]_vars

(* Specification of the BufferBuilder<bool> *)

NextBool ==
    \/ \E c \in BoolCapacities : BoolNew(c)
    \/ \E v \in BOOLEAN : BoolPush(v)
    \/ \E slice \in BoolSliceInputs : BoolPushSlice(slice)
    \/ BoolFinish

SpecBool == Init /\ [][NextBool]_vars

----------------------------------------------------------------------------
(* Specification of the PrimitiveArrayBuilder<T>: new, push, push_null,    *)
(* push_option, push_slice, finish                                          *)

NextPrim ==
    \/ \E size \in TypeSizes, capacity \in PrimCapacities : PNew(size, capacity)
    \/ \E v \in ValueVals : PPush(v)
    \/ PPushNull
    \/ \E d \in OptionInputs : PPushOption(d)
    \/ \E v \in PrimSliceInputs : PPushSlice(v)
    \/ PFinish

SpecPrim == Init /\ [][NextPrim]_vars

NextPrimOrErr ==
    \/ \E capacity \in PrimCapacities : PNew(4, capacity)
    \/ \E v \in ValueVals : PPushOrErr(v)
    \/ PPushNullOrErr
    \/ PFinish

SpecPrimOrErr == Init /\ [][NextPrimOrErr]_vars

----------------------------------------------------------------------------
(* Specification of the ListArrayBuilder over a PrimitiveArrayBuilder<i32> *)
(* child: the child's new, push and push_null, then new, append, finish     *)

NextList ==
    \/ \E capacity \in PrimCapacities : PNew(4, capacity)
    \/ \E v \in ChildVals : ValuesPush(v)
    \/ ValuesPushNull
    \/ LNew
    \/ \E is_valid \in BOOLEAN : LAppend(is_valid)
    \/ LFinish

SpecList == Init /\ [][NextList]_vars

NextListList ==
    \/ \E capacity \in PrimCapacities : PNew(4, capacity)
    \/ \E v \in ChildVals : ValuesPush(v)
    \/ LNew
    \/ \E is_valid \in BOOLEAN : LAppend(is_valid)
    \/ LLNew
    \/ \E is_valid \in BOOLEAN : LLAppend(is_valid)
    \/ LLFinish

SpecListList == Init /\ [][NextListList]_vars

----------------------------------------------------------------------------
(* Specification of the JSON conversions of DataType and Field *)

NextJson ==
    \/ \E x \in DataTypes : DataType_to_json_call(x)
    \/ \E f \in Fields : Field_to_json_call(f)
    \/ \E json \in TypeJsonInputs : GivenTypeJson(json)
    \/ \E json \in FieldJsonInputs : GivenFieldJson(json)
    \/ DataType_from_call
    \/ Field_from_call

SpecJson == Init /\ [][NextJson]_vars

NextSchema ==
    \/ \E fields \in SchemaInputs : Schema_new_call(fields)
    \/ \E name \in ColumnNames : Schema_column_with_name_call(name)

SpecSchema == Init /\ [][NextSchema]_vars

----------------------------------------------------------------------------
(* Specification of Buffers shared between threads: from, then clone,      *)
(* data and drop from any thread in any interleaving                        *)

NextThreads ==
    \/ \E p \in FromInputs : TFrom(p)
    \/ \E t \in Threads, u \in Threads, h \in 1..MaxHandles : TClone(t, h, u)
    \/ \E t \in Threads, h \in 1..MaxHandles : TRead(t, h)
    \/ \E t \in Threads, h \in 1..MaxHandles : TDrop(t, h)
    \/ \E t \in Threads : TFree(t)

SpecThreads == Init /\ [][NextThreads]_vars

----------------------------------------------------------------------------
(* Specification of the fixed-width BufferBuilder<T> with advance *)

(* write_bytes called directly, as the tests of the module do: bytes and    *)
(* the number of slots they are said to add                                 *)
WriteBytesArgs == {<<Fill(8, 16), 2>>, <<Fill(8, 65), 1>>}

BWriteBytes(bytes, len_added) ==
    /\ panic = ""
    /\ bb.state = "live"
    /\ Len(bb.pushed) + len_added <= MaxPushed
    /\ LET r == BufferBuilder_write_bytes(bb, bytes, len_added)
       IN  /\ bb' = [r.builder EXCEPT
                        !.pushed = IF r.ok THEN @ \o [j \in 1..len_added |-> 0] ELSE @]
           /\ last' = [NoCall EXCEPT !.op = "write_bytes", !.k = Len(bytes),
                                     !.ok = r.ok]
    /\ UNCHANGED <<llb, thr, array, lb, js, heap, arcs, handles, mbuf, boolb, calls, panic>>

BPushSliceSlots(slice) == Len(bb.pushed) + Len(slice) <= MaxSlots /\ BPushSlice(slice)

NextWrite ==
    \/ \E size \in TypeSizes, capacity \in BuilderCapacities : BNew(size, capacity)
    \/ \E v \in ValueVals : BPushSlot(v)
    \/ \E slice \in SliceInputs : BPushSliceSlots(slice)
    \/ \E i \in AdvanceArgs : BAdvance(i)
    \/ \E a \in WriteBytesArgs : BWriteBytes(a[1], a[2])
    \/ BFinish

SpecWrite == Init /\ [][NextWrite]_vars

NextAdvance ==
    \/ \E size \in TypeSizes, capacity \in BuilderCapacities : BNew(size, capacity)
    \/ \E v \in ValueVals : BPushSlot(v)
    \/ \E i \in AdvanceArgs : BAdvance(i)
    \/ BFinish

SpecAdvance == Init /\ [][NextAdvance]_vars

----------------------------------------------------------------------------
(* Specification of the BufferBuilder<bool> with reserve *)

NextBoolReserve ==
    \/ \E capacity \in BoolCapacities : BoolNew(capacity)
    \/ \E v \in BOOLEAN : BoolPush(v)
    \/ \E slice \in BoolSliceInputs : BoolPushSlice(slice)
    \/ \E n \in BoolReserveArgs : BoolReserve(n)

SpecBoolReserve == Init /\ [][NextBoolReserve]_vars

NextBoolAdvance ==
    \/ \E capacity \in BoolCapacities : BoolNew(capacity)
    \/ \E v \in BOOLEAN : BoolPush(v)
    \/ \E i \in BoolAdvanceArgs : BoolAdvance(i)
    \/ BoolFinish

SpecBoolAdvance == Init /\ [][NextBoolAdvance]_vars

----------------------------------------------------------------------------
(* Properties *)

SlicePanicMessage == "the offset of the new Buffer cannot exceed the existing length"

HandlesOn(r) == {h \in 1..Len(handles) : arcs[handles[h].data].ptr = r}

(* C1: for every Buffer b (a slice included) and every k with               *)
(* 0 <= k <= b.len(), b.slice(k) succeeds, b.slice(k).len() = b.len() - k   *)
(* and b.slice(k).data() is b.data() from index k on.                       *)
C1_SliceWithinLenSucceeds ==
    (last.op = "slice" /\ last.k <= Buffer_len(handles[last.h])) =>
        /\ last.ok
        /\ panic = ""
        /\ Buffer_len(handles[last.new]) = Buffer_len(handles[last.h]) - last.k
        /\ Buffer_data(handles[last.new]) =
               SubSeq(Buffer_data(handles[last.h]), last.k + 1,
                      Buffer_len(handles[last.h]))

(* C2: a region is freed exactly once, at the drop of its last live handle: *)
(* it is not freed while a clone or slice of it is live, and never twice.   *)
C2_FreedOnceAtLastDrop ==
    \A r \in 1..Len(heap) :
        /\ heap[r].freed <= 1
        /\ (heap[r].freed = 1) <=> (HandlesOn(r) \cap LiveHandles = {})

C2_Witness ==
    \E r \in 1..Len(heap) :
        /\ heap[r].freed = 1
        /\ Cardinality(HandlesOn(r)) >= 3
        /\ \E h \in HandlesOn(r) : handles[h].offset > 0

(* C7: two Buffers compare equal if and only if their logical byte ranges   *)
(* [offset, region_len) have the same length and the same bytes.            *)
C7_EqualIffSameLogicalBytes ==
    \A a \in LiveHandles, b \in LiveHandles :
        Buffer_eq(handles[a], handles[b]) <=>
            Buffer_data(handles[a]) = Buffer_data(handles[b])

(* C8: slice(k) with k > b.len() aborts with the slice panic message and    *)
(* produces no new handle, for every Buffer b.                              *)
C8_SliceBeyondLenAborts ==
    [][(last'.op = "slice" /\ last'.k > Buffer_len(handles[last'.h])) =>
          /\ panic' = SlicePanicMessage
          /\ ~last'.ok
          /\ handles' = handles
          /\ arcs' = arcs]_vars

C8_Witness ==
    /\ panic = SlicePanicMessage
    /\ last.op = "slice"
    /\ handles[last.h].offset > 0
    /\ last.k > Buffer_len(handles[last.h])
    /\ last.k <= arcs[handles[last.h].data].len

(* C3: freeze returns a Buffer with offset 0 whose len is the               *)
(* MutableBuffer's len (not its capacity) and whose bytes are its first len *)
(* bytes; the region is not freed by the consumed MutableBuffer, only once, *)
(* when the last Buffer handle is dropped.                                  *)
C3_FreezeHandsOverRegion ==
    mbuf.state = "frozen" =>
        /\ handles[1].offset = 0
        /\ arcs[handles[1].data].len = mbuf.len
        /\ SubSeq(heap[arcs[handles[1].data].ptr].bytes, 1, mbuf.len) =
               MutableBuffer_data(mbuf)
        /\ heap[1].freed = IF LiveHandles = {} THEN 1 ELSE 0

C3_Witness ==
    /\ mbuf.state = "frozen"
    /\ mbuf.len > 0
    /\ mbuf.len < mbuf.capacity
    /\ Len(handles) >= 2
    /\ LiveHandles = {}
    /\ heap[1].freed = 1

(* C4: in every state of a MutableBuffer reached by new, reserve/resize,    *)
(* write and clear, capacity is a multiple of 64 and len <= capacity.       *)
C4_CapacityAlignedLenBounded ==
    mbuf.state = "live" =>
        /\ mbuf.capacity % 64 = 0
        /\ mbuf.len <= mbuf.capacity
        /\ Len(mbuf.data) = mbuf.capacity

C4_Witness ==
    /\ mbuf.state = "live"
    /\ mbuf.capacity = 128
    /\ mbuf.len = 65

(* C5: growing to a requested size n changes nothing when n <= capacity;    *)
(* otherwise the new capacity is max(round_up_to_64(n), 2 * old capacity)   *)
(* and the bytes already written are preserved.                             *)
C5_GrowthRule ==
    [][(last'.op = "resize") =>
          IF last'.k <= mbuf.capacity
          THEN mbuf' = mbuf
          ELSE /\ mbuf'.capacity =
                      Max(((last'.k + 63) \div 64) * 64, 2 * mbuf.capacity)
               /\ mbuf'.len = mbuf.len
               /\ MutableBuffer_data(mbuf') = MutableBuffer_data(mbuf)]_vars

C5_Witness ==
    /\ last.op = "resize"
    /\ last.k = 129
    /\ mbuf.capacity = 256
    /\ mbuf.len > 0

(* C6: write(bytes) never grows the buffer: when bytes.len() > capacity -   *)
(* len it fails and leaves len, capacity and the stored bytes unchanged; it *)
(* succeeds exactly when bytes.len() <= capacity - len.                     *)
C6_WriteNeverGrows ==
    [][(last'.op = "write") =>
          IF last'.k > mbuf.capacity - mbuf.len
          THEN /\ ~last'.ok
               /\ mbuf' = mbuf
          ELSE /\ last'.ok
               /\ mbuf'.capacity = mbuf.capacity
               /\ mbuf'.len = mbuf.len + last'.k]_vars

C6_Witness ==
    /\ last.op = "write"
    /\ ~last.ok
    /\ mbuf.len = mbuf.capacity
    /\ mbuf.capacity > 0

(* C9: for a fixed-width BufferBuilder<T> and any sequence of push and      *)
(* push_slice calls, from any initial capacity and across growth, the       *)
(* Buffer returned by finish has length elements_pushed * sizeof(T).        *)
C9_FinishedLength ==
    bb.state = "finished" =>
        Buffer_len(handles[1]) = Len(bb.pushed) * bb.size

C9_Witness ==
    /\ bb.state = "finished"
    /\ bb.buffer.capacity = 128
    /\ Len(bb.pushed) * bb.size > 64
    /\ Buffer_len(handles[1]) = Len(bb.pushed) * bb.size

(* C10: for a BufferBuilder<bool> and n pushed booleans, the Buffer         *)
(* returned by finish has length ceil(n / 8) bytes.                         *)
C10_BoolFinishedLength ==
    boolb.state = "finished" =>
        Buffer_len(handles[1]) = (Len(boolb.pushed) + 7) \div 8

(* C11: for a BufferBuilder<bool> and any sequence of pushed booleans, bit  *)
(* i (byte i / 8, position i % 8 from the least significant bit) of the     *)
(* Buffer returned by finish is readable and equals the i-th pushed value,  *)
(* for every i below the number of pushes.                                  *)
C11_FinishedBitsArePushedValues ==
    boolb.state = "finished" =>
        \A i \in 0..(Len(boolb.pushed) - 1) :
            /\ i \div 8 < Buffer_len(handles[1])
            /\ get_bit(Buffer_data(handles[1]), i) = boolb.pushed[i + 1]

(* C12: in the array a PrimitiveArrayBuilder<T> finishes into, value(i) is  *)
(* the value pushed for slot i, for every slot i that was pushed non-null,  *)
(* whatever push, push_null, push_option and push_slice calls built it.     *)
C12_ValueIsPushedValue ==
    Len(array) = 1 =>
        \A i \in 0..(Len(bb.pushed) - 1) :
            boolb.pushed[i + 1] =>
                PrimitiveArray_value(array[1], i)
                    = to_byte_slice(bb.pushed[i + 1], bb.size)

NullSlots == {i \in 1..Len(boolb.pushed) : ~boolb.pushed[i]}

(* C13: the null_count of the finished array is the number of push_null    *)
(* and push_option(None) calls made on the builder.                         *)
C13_NullCountIsNullPushes ==
    Len(array) = 1 => array[1].null_count = Cardinality(NullSlots)

(* C14: the length of the finished array is the number of slots pushed:    *)
(* one per push, push_null and push_option, Len(vs) per push_slice(vs).     *)
C14_LengthIsSlotsPushed ==
    Len(array) = 1 => array[1].len = Len(bb.pushed)

C14_Witness ==
    /\ Len(array) = 1
    /\ array[1].len = MaxSlots
    /\ NullSlots /= {}
    /\ \E i \in 1..Len(bb.pushed) : bb.pushed[i] = 258

ClosedLen ==
    IF lb.appended = <<>> THEN 0 ELSE lb.appended[Len(lb.appended)].child_len

(* C16, as claimed: in the array a ListArrayBuilder finishes into, the last *)
(* offset, offsets[len], equals the child array's length, for every         *)
(* sequence of child pushes and append calls.                               *)
C16_LastOffsetIsChildLength ==
    Len(array) = 2 =>
        ListArray_value_offset(array[2], array[2].len) = array[1].len

(* C16, amended: the last offset of the finished list array is the child's  *)
(* length at the last append call (0 when append was never called), so it   *)
(* equals the child array's length exactly when no child element was        *)
(* pushed after the last append (or, without an append, at all).            *)
C16_LastOffsetIsClosedLength ==
    Len(array) = 2 =>
        /\ ListArray_value_offset(array[2], array[2].len) = ClosedLen
        /\ (ListArray_value_offset(array[2], array[2].len) = array[1].len)
               <=> (ClosedLen = Len(bb.pushed))

C16_Witness ==
    /\ Len(array) = 2
    /\ array[2].len = MaxAppends
    /\ ClosedLen = Len(bb.pushed)
    /\ array[1].len = MaxChildSlots
    /\ ListArray_value_offset(array[2], array[2].len) = MaxChildSlots

(* C17: in every state of a ListArrayBuilder, the offsets its offsets      *)
(* builder holds are monotonically non-decreasing.                          *)
C17_OffsetsMonotone ==
    lb.state = "live" =>
        LET offsets == BuilderOffsets(lb.offsets_builder)
        IN  \A i, j \in 1..Len(offsets) : i <= j => offsets[i] <= offsets[j]

C17_Witness ==
    /\ lb.state = "live"
    /\ lb.len = MaxAppends
    /\ LET offsets == BuilderOffsets(lb.offsets_builder)
       IN  /\ \E i \in 1..(Len(offsets) - 1) : offsets[i] < offsets[i + 1]
           /\ \E i \in 2..(Len(offsets) - 1) : offsets[i] = offsets[i + 1]
           /\ offsets[Len(offsets)] = MaxChildSlots

(* C18: in every state of a ListArrayBuilder, its offsets builder holds    *)
(* exactly len + 1 offsets, the first of which is 0, where len is the       *)
(* number of append calls made.                                             *)
C18_OffsetsCount ==
    lb.state = "live" =>
        /\ lb.len = Len(lb.appended)
        /\ lb.offsets_builder.len = lb.len + 1
        /\ BuilderOffsets(lb.offsets_builder)[1] = 0

C18_Witness ==
    /\ lb.state = "live"
    /\ lb.len = MaxAppends
    /\ last.op = "append"
    /\ lb.offsets_builder.len = MaxAppends + 1
    /\ BuilderOffsets(lb.offsets_builder)[2] > 0

(* C19: for every DataType x built from the supported variants,            *)
(* DataType::from(x.to_json()) is Ok(x), and for every Field f,             *)
(* Field::from(f.to_json()) is Ok(f).                                       *)
C19_JsonRoundTrip ==
    (js.stage = "parsed" /\ js.origin = "to_json") =>
        /\ js.result.ok
        /\ js.result.value = js.x

(* the integer DataType of a width and signedness *)
IntegerType ==
    [isSigned \in BOOLEAN, w \in IntWidths |->
        IF isSigned
        THEN CASE w = 8 -> Primitive("Int8") [] w = 16 -> Primitive("Int16")
               [] w = 32 -> Primitive("Int32") [] w = 64 -> Primitive("Int64")
        ELSE CASE w = 8 -> Primitive("UInt8") [] w = 16 -> Primitive("UInt16")
               [] w = 32 -> Primitive("UInt32") [] w = 64 -> Primitive("UInt64")]

(* C20: DataType::from of {"name":"int","bitWidth":W,"isSigned":S} with W  *)
(* in {8, 16, 32, 64} is the integer type of exactly that width and         *)
(* signedness; in particular W = 64, S = true gives Int64.                  *)
C20_IntJsonParsesToItsWidth ==
    \A isSigned \in BOOLEAN, w \in IntWidths :
        (js.stage = "parsed" /\ js.of = "DataType"
            /\ js.json = int_json(w, isSigned)) =>
                /\ js.result.ok
                /\ js.result.value = IntegerType[isSigned, w]

(* C21: when threads clone, read and drop handles to one Buffer region in  *)
(* any interleaving, every data() returns the bytes the Buffer was built    *)
(* from, read from a region that is not freed; the region is not freed      *)
(* while a handle is live in any thread; and it is freed exactly once when  *)
(* the last handle has been dropped.                                        *)
C21_SharedAcrossThreads ==
    /\ \A t \in Threads :
          thr[t].read.done =>
              thr[t].read.bytes = thr[1].made /\ thr[t].read.freed = 0
    /\ \A r \in 1..Len(heap) :
          /\ heap[r].freed <= 1
          /\ (\E h \in HandlesOn(r) : handles[h].live) => heap[r].freed = 0
          /\ ((\A h \in HandlesOn(r) : ~handles[h].live)
                 /\ (\A t \in Threads : thr[t].dropping = 0))
                => heap[r].freed = 1

C21_Witness ==
    /\ Len(handles) = MaxHandles
    /\ \A t \in Threads : thr[t].read.done /\ thr[t].read.bytes = <<0, 1, 1>>
    /\ last.op = "free"
    /\ heap[1].freed = 1

(* C22: advance(i) on a fixed-width BufferBuilder<T> grows the buffer's    *)
(* byte length by i * sizeof(T) and the element count by i; a value pushed  *)
(* afterwards is stored at byte offset count * sizeof(T); and the finished  *)
(* Buffer's length is the number of slots, skipped ones included, times     *)
(* sizeof(T).                                                               *)
C22_AdvanceSkipsSlots ==
    [][/\ last'.op = "advance" =>
              /\ bb'.buffer.len = bb.buffer.len + last'.k * bb.size
              /\ bb'.len = bb.len + last'.k
       /\ last'.op = "push" =>
              SubSeq(bb'.buffer.data, bb.len * bb.size + 1, (bb.len + 1) * bb.size)
                  = to_byte_slice(bb'.pushed[Len(bb'.pushed)], bb.size)
       /\ last'.op = "finish" =>
              Buffer_len(handles'[1]) = Len(bb.pushed) * bb.size]_vars

(* C23: MutableBuffer::resize(n) with n above the current capacity sets    *)
(* len to n.                                                                *)
C23_ResizeSetsLen ==
    [][(last'.op = "resize" /\ last'.k > mbuf.capacity)
          => mbuf'.len = last'.k]_vars

C25_DataIsWhatWasWritten ==
    mbuf.state = "live" =>
        /\ MutableBuffer_data(mbuf) = mbuf.written
        /\ mbuf.len = Len(mbuf.written)

C25_Witness ==
    /\ mbuf.state = "live"
    /\ last.op = "write"
    /\ last.ok
    /\ calls = MaxCalls
    /\ mbuf.written = <<1, 0>>

(* C26: write, successful or failed, and clear leave a MutableBuffer's     *)
(* capacity unchanged, and no call makes the capacity smaller.              *)
C26_CapacityOnlyGrows ==
    [][(mbuf.state = "live" /\ mbuf'.state = "live") =>
          /\ mbuf'.capacity >= mbuf.capacity
          /\ last'.op \in {"write", "clear"} =>
                 mbuf'.capacity = mbuf.capacity]_vars

C26_Witness ==
    /\ mbuf.state = "live"
    /\ last.op = "clear"
    /\ mbuf.capacity = 128
    /\ mbuf.len = 0
    /\ calls = MaxCalls

(* C27: in every state of a BufferBuilder<bool> reached by new, push,      *)
(* push_slice and reserve, every bit at a position >= len within the        *)
(* allocated capacity is 0, the bytes added by each growth included: the    *)
(* byte holding bit len has no bit set at or above position len % 8, and    *)
(* every later byte is 0.                                                   *)
C27_TailBitsAreZero ==
    boolb.state = "live" =>
        /\ Len(boolb.buffer.data) = boolb.buffer.capacity
        /\ \A j \in 1..boolb.buffer.capacity :
              /\ j > (boolb.len \div 8) + 1 => boolb.buffer.data[j] = 0
              /\ j = (boolb.len \div 8) + 1 =>
                     boolb.buffer.data[j] < 2 ^ (boolb.len % 8)

C27_Witness ==
    /\ boolb.state = "live"
    /\ last.op = "push"
    /\ boolb.buffer.capacity = 256
    /\ boolb.len = MaxPushed
    /\ boolb.buffer.data[1] = 255

(* C28: in the array a PrimitiveArrayBuilder<T> finishes into, for every   *)
(* slot i, is_null(i) holds exactly when the slot was pushed by push_null   *)
(* or push_option(None), and is_valid(i) is its negation.                   *)
C28_NullSlotsAreNull ==
    Len(array) = 1 =>
        \A i \in 0..(array[1].len - 1) :
            /\ ArrayData_is_null(array[1], i) = [ok |-> TRUE, v |-> (i + 1) \in NullSlots]
            /\ ArrayData_is_valid(array[1], i) = [ok |-> TRUE, v |-> (i + 1) \notin NullSlots]

(* push(v[1]); ...; push(v[k]) on a builder, as one result *)
RECURSIVE PushEach(_, _, _, _)
PushEach(self, v, fv, fb) ==
    IF v = <<>>
    THEN [ok |-> TRUE, builder |-> self]
    ELSE LET r == PrimitiveArrayBuilder_push(self, Head(v), fv, fb)
             rest == PushEach(r.builder, Tail(v), fv, fb)
         IN  [ok |-> r.ok /\ rest.ok, builder |-> rest.builder]

(* what can be seen of a builder: its length, the validity bit and the     *)
(* value bytes of every slot, the bytes written to the values buffer, and   *)
(* the array it finishes into (length, null count, the Buffers' bytes)      *)
Observable(self) ==
    LET len == PrimitiveArrayBuilder_len(self)
        d == PrimitiveArrayBuilder_finish(self)
    IN  [len |-> len,
         bitmap_len |-> self.bitmap_builder.len,
         bits |-> [i \in 0..(len - 1) |-> get_bit(self.bitmap_builder.buffer.data, i)],
         slots |-> SubSeq(self.values_builder.buffer.data, 1,
                          len * self.values_builder.size),
         written |-> MutableBuffer_data(self.values_builder.buffer),
         array |-> [len |-> d.len, null_count |-> d.null_count,
                    values |-> Frozen_data(d.values),
                    null_bitmap |-> Frozen_data(d.null_bit_buffer)]]

PrimBuilder(values_builder, bitmap_builder) ==
    [values_builder |-> values_builder, bitmap_builder |-> bitmap_builder]

(* C29: a push_slice(v) call leaves the builder in the same observable     *)
(* state as push(v[1]); ...; push(v[k]) from the same state would, and a    *)
(* push_option call the same state as push(v) for Some(v) and push_null()   *)
(* for None; the arrays the two builders finish into are equal.             *)
C29_SliceAndOptionArePushes ==
    [][LET pushed == Len(bb.pushed)
           v == SubSeq(bb'.pushed, pushed + 1, Len(bb'.pushed))
           after == Observable(PrimBuilder(bb', boolb'))
       IN  /\ last'.op = "push_slice" =>
                 \E fv \in FreshFill, fb \in FreshFill :
                    LET r == PushEach(PrimSelf, v, fv, fb)
                    IN  last'.ok = r.ok /\ after = Observable(r.builder)
           /\ last'.op = "push_option" =>
                 \E fv \in FreshFill, fb \in FreshFill :
                    LET r == IF boolb'.pushed[pushed + 1]
                             THEN PrimitiveArrayBuilder_push(PrimSelf, v[1], fv, fb)
                             ELSE PrimitiveArrayBuilder_push_null(PrimSelf, fv, fb)
                    IN  last'.ok = r.ok /\ after = Observable(r.builder)]_vars

C29_Witness ==
    /\ last.op = "push_slice"
    /\ last.k = 2
    /\ last.ok
    /\ NullSlots /= {}
    /\ Len(bb.pushed) = MaxSlots

(* the child builder's length at the i-th append call, 0 for i = 0 *)
ChildLenAt(i) == IF i = 0 THEN 0 ELSE lb.appended[i].child_len

(* C30: every append call records the number of child slots pushed so far  *)
(* as the slot's end offset, so in the finished ListArray value_offset(i)   *)
(* is the child count at the previous append (0 for slot 0) and             *)
(* value_length(i) the number of child slots pushed between the two calls.  *)
C30_SlotCoversPushesBetweenAppends ==
    /\ [][last'.op = "append" =>
             /\ last'.ok
             /\ lb'.appended[Len(lb'.appended)].child_len = Len(bb.pushed)
             /\ LET offsets == BuilderOffsets(lb'.offsets_builder)
                IN  offsets[Len(offsets)] = Len(bb.pushed)]_vars
    /\ [](Len(array) = 2 =>
             /\ array[2].len = Len(lb.appended)
             /\ \A i \in 0..(array[2].len - 1) :
                   /\ ListArray_value_offset(array[2], i) = ChildLenAt(i)
                   /\ ListArray_value_length(array[2], i)
                          = ChildLenAt(i + 1) - ChildLenAt(i))

C30_Witness ==
    /\ Len(array) = 2
    /\ array[2].len = MaxAppends
    /\ ListArray_value_offset(array[2], 1) = 1
    /\ ListArray_value_length(array[2], 0) = 1
    /\ ListArray_value_length(array[2], 1) = MaxChildSlots - 1

NullAppends == {i \in 1..Len(lb.appended) : ~lb.appended[i].is_valid}

(* C31: in the array a ListArrayBuilder finishes into, null_count is the    *)
(* number of append(false) calls and the length the number of append calls, *)
(* and a slot closed by append(false) with no child element pushed since    *)
(* the previous append starts and ends at the same offset.                  *)
C31_ListNullCountIsNullAppends ==
    Len(array) = 2 =>
        /\ array[2].null_count = Cardinality(NullAppends)
        /\ array[2].len = Len(lb.appended)
        /\ \A i \in NullAppends :
              lb.appended[i].child_len = ChildLenAt(i - 1) =>
                  /\ ListArray_value_offset(array[2], i)
                         = ListArray_value_offset(array[2], i - 1)
                  /\ ListArray_value_length(array[2], i - 1) = 0

OuterNullAppends == {i \in 1..Len(llb.appended) : ~llb.appended[i].is_valid}

(* the number of append calls made on the inner builder before the i-th     *)
(* append call on the outer one, 0 for i = 0                                *)
InnerSlotsAt(i) == IF i = 0 THEN 0 ELSE llb.appended[i].child_len

(* C32: for a ListArrayBuilder over a ListArrayBuilder, the outer offsets   *)
(* count the inner builder's append calls (null inner slots included) and   *)
(* the inner offsets count leaf values; an append on one builder leaves the *)
(* other as it was, and each finished array's length and null_count are     *)
(* those of its own append calls.                                           *)
C32_NestedListsCountTheirOwnSlots ==
    /\ [][/\ last'.op = "list_list_append" => (lb' = lb /\ bb' = bb /\ boolb' = boolb)
          /\ last'.op = "append" => llb' = llb]_vars
    /\ [](Len(array) = 3 =>
             /\ array[3].len = Len(llb.appended)
             /\ array[2].len = Len(lb.appended)
             /\ array[1].len = Len(bb.pushed)
             /\ \A i \in 0..array[3].len :
                   ListArray_value_offset(array[3], i) = InnerSlotsAt(i)
             /\ \A i \in 0..array[2].len :
                   ListArray_value_offset(array[2], i) = ChildLenAt(i)
             /\ array[3].null_count = Cardinality(OuterNullAppends)
             /\ array[2].null_count = Cardinality(NullAppends))

(* C33: on a fixed-width BufferBuilder, push and push_slice never fail,     *)
(* whatever push, push_slice and advance calls came before; write_bytes     *)
(* fails exactly when its bytes do not fit between the buffer's write       *)
(* position and its capacity, and a failed call leaves the builder, its     *)
(* len included, as it was.                                                 *)
C33_WriteOnlyFailsWithoutReserve ==
    [][/\ last'.op \in {"push", "push_slice"} => last'.ok
       /\ last'.op = "write_bytes" =>
             /\ last'.ok <=> bb.buffer.len + last'.k <= bb.buffer.capacity
             /\ ~last'.ok => (bb'.len = bb.len /\ bb' = bb)
             /\ last'.ok => bb'.buffer.len = bb.buffer.len + last'.k]_vars

C33_Witness ==
    /\ last.op = "write_bytes"
    /\ ~last.ok
    /\ bb.len > 0
    /\ bb.buffer.len < bb.len * bb.size
    /\ bb.buffer.capacity > 0

Parsed(of) == js.stage = "parsed" /\ js.of = of

HasName(json, str) ==
    /\ json.kind = "Object"
    /\ "name" \in DOMAIN json.map
    /\ json.map.name = JString(str)

(* C34: DataType::from of {"name":"list","children": C} is Ok(List(T)),    *)
(* where T is the DataType that C parses to, for every child JSON C that    *)
(* parses.                                                                  *)
C34_ListJsonParsesToList ==
    (Parsed("DataType") /\ HasName(js.json, "list")
        /\ "children" \in DOMAIN js.json.map
        /\ DataType_from(js.json.map.children).ok) =>
            js.result = Ok(List(DataType_from(js.json.map.children).value))

(* the keys of the encoding of a type or of a field *)
EncodingKeys(json, of) ==
    IF of = "Field" THEN {"name", "nullable", "type"}
    ELSE CASE HasName(json, "int") -> {"name", "bitWidth", "isSigned"}
           [] HasName(json, "floatingpoint") -> {"name", "precision"}
           [] HasName(json, "list") -> {"name", "children"}
           [] "name" \in DOMAIN json.map -> {"name"}
           [] OTHER -> {"fields"}

(* C35: DataType::from and Field::from return ParseError for a JSON object  *)
(* that has a key outside the encoding of its type, or of a field.          *)
C35_UnknownKeysRejected ==
    (js.stage = "parsed" /\ js.json.kind = "Object"
        /\ DOMAIN js.json.map \ EncodingKeys(js.json, js.of) /= {}) =>
            ~js.result.ok

Has(json, key, kind) ==
    /\ key \in DOMAIN json.map
    /\ json.map[key].kind = kind

(* a type JSON that is malformed or unsupported *)
Malformed(json) ==
    \/ json.kind /= "Object"
    \/ /\ json.kind = "Object"
       /\ \/ /\ "name" \in DOMAIN json.map
             /\ ~\E str \in {"bool", "utf8", "floatingpoint", "int", "list"} :
                    HasName(json, str)
          \/ /\ HasName(json, "int")
             /\ \/ ~Has(json, "isSigned", "Bool")
                \/ ~Has(json, "bitWidth", "Number")
                \/ json.map.bitWidth.n \notin IntWidths
          \/ /\ HasName(json, "floatingpoint")
             /\ \/ ~Has(json, "precision", "String")
                \/ json.map.precision.s \notin {"HALF", "SINGLE", "DOUBLE"}
          \/ /\ "name" \notin DOMAIN json.map
             /\ \/ ~Has(json, "fields", "Array")
                \/ \E i \in 1..Len(json.map.fields.items) :
                      ~Field_from(json.map.fields.items[i]).ok

(* C36: DataType::from returns ParseError, never a DataType, for a value    *)
(* that is not an object, an unknown type name, an int whose isSigned is    *)
(* missing or not a boolean or whose bitWidth is missing or not one of 8,   *)
(* 16, 32, 64, a floatingpoint whose precision is missing or not HALF,      *)
(* SINGLE or DOUBLE, an object with neither a name nor a fields array, and  *)
(* a struct one of whose fields does not parse.                             *)
C36_MalformedTypeIsParseError ==
    (Parsed("DataType") /\ Malformed(js.json)) =>
        /\ ~js.result.ok
        /\ DOMAIN js.result = {"ok", "error"}

C36_Witness ==
    /\ Parsed("DataType")
    /\ HasName(js.json, "floatingpoint")
    /\ Malformed(js.json)
    /\ ~js.result.ok

(* C37: Field::from returns Ok exactly when the JSON is an object with a    *)
(* string name, a boolean nullable and a type that DataType::from parses,   *)
(* and then the Field of exactly that name, nullable and parsed type;       *)
(* otherwise it returns ParseError.                                         *)
C37_FieldFromNeedsAllThree ==
    Parsed("Field") =>
        LET wellformed ==
                /\ js.json.kind = "Object"
                /\ Has(js.json, "name", "String")
                /\ Has(js.json, "nullable", "Bool")
                /\ "type" \in DOMAIN js.json.map
                /\ DataType_from(js.json.map.type).ok
        IN  /\ js.result.ok <=> wellformed
            /\ js.result.ok =>
                  js.result.value = Field_new(js.json.map.name.s,
                                              DataType_from(js.json.map.type).value,
                                              js.json.map.nullable.b)
            /\ ~js.result.ok => DOMAIN js.result = {"ok", "error"}

C37_Witness ==
    /\ Parsed("Field")
    /\ js.origin = "given"
    /\ js.json.kind = "Object"
    /\ Has(js.json, "name", "String")
    /\ "nullable" \notin DOMAIN js.json.map
    /\ ~js.result.ok

(* the indices of the fields of the schema that have the name looked up *)
Named == {i \in 0..(Len(js.given) - 1) : js.given[i + 1].name = js.name}

(* C38: a Schema keeps its fields in the order it was built from, and       *)
(* column_with_name(n) is Some((i, field(i))) for the smallest index i      *)
(* whose field is named n, and None exactly when no field is named n.       *)
C38_ColumnWithNameIsFirstMatch ==
    (js.stage = "schema" /\ last.op = "column_with_name") =>
        /\ js.self.fields = js.given
        /\ \A i \in 0..(Len(js.given) - 1) : Schema_field(js.self, i) = js.given[i + 1]
        /\ ~js.result.some <=> (Named = {})
        /\ Named /= {} =>
              LET i == CHOOSE k \in Named : \A j \in Named : k <= j
              IN  /\ js.result.some
                  /\ js.result.v = <<i, Schema_field(js.self, i)>>

C38_Witness ==
    /\ js.stage = "schema"
    /\ last.op = "column_with_name"
    /\ Cardinality(Named) = 2
    /\ js.result.some
    /\ js.result.v[1] = 1

(* C39: a push or push_null call on a PrimitiveArrayBuilder that returns    *)
(* Err leaves the builder as it was before the call; in particular the      *)
(* validity builder and the values builder still have the same length.      *)
C39_FailedPushChangesNothing ==
    [][(last'.op \in {"push", "push_null"} /\ ~last'.ok) =>
          /\ bb' = bb
          /\ boolb' = boolb
          /\ boolb'.len = bb'.len]_vars

(* C40: in every state of a BufferBuilder<bool> reached by new, push and    *)
(* advance, the bits skipped by advance read 0, every pushed bit reads as   *)
(* pushed, and every bit at a position >= len within the capacity is 0,     *)
(* also when advance grew the buffer; the region of the finished Buffer     *)
(* holds the same bits.                                                     *)
C40_AdvanceKeepsTailZero ==
    /\ boolb.state = "live" =>
          /\ boolb.len = Len(boolb.pushed)
          /\ \A j \in 0..(boolb.buffer.capacity * 8 - 1) :
                get_bit(boolb.buffer.data, j) = (j < boolb.len /\ boolb.pushed[j + 1])
    /\ (boolb.state = "finished" /\ last.op = "finish") =>
          LET region == heap[arcs[handles[last.new].data].ptr].bytes
          IN  \A j \in 0..(Len(boolb.pushed) - 1) :
                 get_bit(region, j) = boolb.pushed[j + 1]

====
